---------------------------- MODULE Spec2Model ----------------------------
(***************************************************************************)
(* Model of neopult: the window manager (src/src/window_manager.rs), the   *)
(* plugin registry, the store and the deferred-task queue of the plugin    *)
(* system (src/neopult/src/plugin_system.rs, plugin_system/api.rs).        *)
(***************************************************************************)
EXTENDS Integers, Sequences, FiniteSets, TLC

(***************************************************************************)
(* Bounds                                                                  *)
(***************************************************************************)
MaxWindows == 2
MaxPluginInstances == 2
MaxModules == 1
MaxActions == 1
MaxActiveLen == 2
MaxSubscriptions == 2
MaxSetDepth == 2
MaxTasks == 3
MaxNotifications == 2
MaxRequests == 1
MaxQueue == 1
MaxFrames == 3
BusCapacity == 1
MaxProcesses == 2
MaxLines == 3
MaxEvents == 1
MaxErrors == 2

(***************************************************************************)
(* Program constants                                                       *)
(***************************************************************************)
MIN_Z == 1
MAX_Z == 0
U16 == 65536
None == -1
ExpireInterval == 10
AUTH_TIMEOUT == 5
CLOSE_CODE_AUTH == 1
CLOSE_CODE_AUTH_TIMEOUT == 2
I32_MAX == 2147483647

(***************************************************************************)
(* Window manager: value domains                                           *)
(***************************************************************************)
\* the X windows get_window_by_class can find
XWindows == {1}

ModeMin == [kind |-> "Min", width |-> 0, height |-> 0]
ModeHidden == [kind |-> "Hidden", width |-> 0, height |-> 0]
ModeMax(w, h) == [kind |-> "Max", width |-> w, height |-> h]

\* sizes a script passes to max(); <<16, 16>> is below every screen size range
MaxSizes == {<<1024, 768>>, <<1280, 720>>, <<16, 16>>}

\* RandR screen size range of the X server: the one a VNC server announces, and
\* one whose minimum height differs from its minimum width
RangeVnc == [min_width |-> 32, min_height |-> 32, max_width |-> 32768, max_height |-> 32768]
RangeSkew == [min_width |-> 32, min_height |-> 768, max_width |-> 32768, max_height |-> 32768]

\* the screen size found at start-up (GetCrtcInfo in WindowManager::init)
InitialScreen == <<1024, 768>>

AlignedGeometry(x, y, w, h, a) ==
    [x_offset |-> x, y_offset |-> y, width |-> w, height |-> h, alignment |-> a]

from_width_height(width, height) == AlignedGeometry(0, 0, width, height, "lt")

MinGeometryDefault == [kind |-> "Fixed", geometry |-> AlignedGeometry(0, 0, 480, 360, "rb")]
MinGeometryDynamic == [kind |-> "Dynamic", geometry |-> AlignedGeometry(0, 0, 0, 0, "lt")]

\* option tables a script passes to create_virtual_window: no options; the string
\* "400x300+200-100" with primary_demotion_action "hide"; a min_geometry function
VirtualWindowOptions ==
    { [min_geometry |-> MinGeometryDefault, primary_demotion_action |-> "Minimize"],
      [min_geometry |-> [kind |-> "Fixed",
                         geometry |-> AlignedGeometry(200, 100, 400, 300, "lb")],
       primary_demotion_action |-> "Hide"],
      [min_geometry |-> MinGeometryDynamic, primary_demotion_action |-> "Minimize"] }

\* min_geometry options a script passes to claim_window: absent, or a function
ClaimWindowOptions == {MinGeometryDefault, MinGeometryDynamic}

\* u16 arithmetic of into_geometry (wrapping)
into_geometry(g, sw, sh) ==
    LET right == (sw - g.width - g.x_offset) % U16
        bottom == (sh - g.height - g.y_offset) % U16
    IN CASE g.alignment = "lt" -> <<g.x_offset, g.y_offset>>
         [] g.alignment = "rt" -> <<right, g.y_offset>>
         [] g.alignment = "rb" -> <<right, bottom>>
         [] g.alignment = "lb" -> <<g.x_offset, bottom>>

\* a u16 subtraction of into_geometry goes below zero: the program panics in a
\* build with overflow checks and goes on with the wrapped value in one without
underflows(g, sw, sh) ==
    \/ g.alignment \in {"rt", "rb"} /\ sw - g.width - g.x_offset < 0
    \/ g.alignment \in {"rb", "lb"} /\ sh - g.height - g.y_offset < 0

VARIABLES
    managed_windows,   \* ManagedWid -> [variant, window, min_geometry, mode, demotion]
    primary_window,    \* ManagedWid or None
    screen_width,
    screen_height,
    current_id,
    x_range,           \* X server: RandR screen size range
    x_screen,          \* X server: screen size <<w, h>>
    x_crtc,            \* X server: size of the mode set on the CRTC/output
    x_alive,           \* X server: which X windows exist
    x_tagged,          \* X server: which X windows carry _NEOPULT_MANAGED
    window_geometry,   \* ManagedWid -> last geometry applied to the window
    window_mapped,     \* ManagedWid -> whether the window is mapped
    crashed,           \* the process panicked
    wm_call            \* the window manager call made in the last step, and its result

wm_vars == <<managed_windows, primary_window, screen_width, screen_height, current_id,
             x_range, x_screen, x_crtc, x_alive, x_tagged, window_geometry,
             window_mapped, crashed, wm_call>>

VARIABLES
    plugin_instances,  \* ctx.plugin_instances: Seq of [name, modules]
    next_key,          \* the next Lua registry key
    reg_call           \* the registry call made in the last step, and its result

reg_vars == <<plugin_instances, next_key, reg_call>>

VARIABLES
    store_value,           \* the user value of the store
    subscriber_callbacks,  \* Store.subscriber_callbacks: set of registry keys
    next_subscription,     \* the next registry key subscribe creates
    set_stack,             \* the set calls in progress, innermost last
    completed_set,         \* the set call that returned in the last step, if any
    last_delivered         \* per subscription, the value of its last call (None: no call)

store_vars == <<store_value, subscriber_callbacks, next_subscription, set_stack,
                completed_set, last_delivered>>

VARIABLES
    run_later_tasks,     \* ctx.run_later_tasks: queue of deferred tasks
    next_task,           \* the next deferred task run_later creates
    loop_pc,             \* where the plugin thread is
    event_loop_counter,
    executed,            \* the deferred tasks called so far, in call order
    loop_errors          \* the script errors the event loop has logged

loop_vars ==
    <<run_later_tasks, next_task, loop_pc, event_loop_counter, executed, loop_errors>>

VARIABLES
    module_status,   \* Module.status of the loaded modules
    module_message,  \* Module.message of the loaded modules
    bus_log,         \* the notifications sent to the notification channel so far
    sessions,        \* the websocket sessions
    event_queue,     \* the events on the channel to the plugin thread
    ps,              \* the plugin thread: waiting for an event or in a callback,
                     \* the event it received last and the callback it calls
    next_request,    \* the next request id a client uses
    set_call         \* what the script did in the last step: the module setter
                     \* it called, or the return of the action callback

srv_vars == <<module_status, module_message, bus_log, sessions, event_queue, ps,
              next_request, set_call>>

VARIABLES
    processes,      \* the spawned children, by process handle
    pid_files,      \* the PID directory: pid -> handle whose spawn created <pid>.pid, 0: no file
    proc_call,      \* the last call of the process API
    cleanup,        \* the for_each over the plugin instances after the loop
    main_pc,        \* main: "running", "waiting", "exited" or "forced"
    shutdown_receiver, \* the event loop's receiver of the shutdown channel: "none"
                    \* (not subscribed yet), "empty" or "signal"
    outputs,        \* the pipes and reader tasks of the children, by process handle
    output_queue,   \* the ProcessOutput events in the event channel
    delivered       \* the ProcessOutput events handed to on_output callbacks

proc_vars == <<processes, pid_files, proc_call, cleanup, main_pc, shutdown_receiver>>

out_vars == <<outputs, output_queue, delivered>>

VARIABLES
    pid_dir,        \* the names of the files in the PID directory
    pid_dir_exists, \* the PID directory exists
    old_processes,  \* the processes of a previous instance, by pid
    sweep           \* PluginSystem::init: where the sweep is, the entries to visit, the last log

sweep_vars == <<pid_dir, pid_dir_exists, old_processes, sweep>>

VARIABLES
    geometry_parts,   \* the pieces the geometry string was put together from
    geometry_text,    \* the geometry string, as bytes
    geometry_result   \* what AlignedGeometry::from_str made of it

geo_vars == <<geometry_parts, geometry_text, geometry_result>>

VARIABLES
    cli_actions,   \* the registered actions, as (plugin instance, module, action) names
    cli_printed,   \* the action whose line of the reply to `actions` is taken
    cli_command,   \* the command line typed, as characters
    cli_reply      \* what the command did

cli_vars == <<cli_actions, cli_printed, cli_command, cli_reply>>

VARIABLES
    wm_lock,        \* ctx.window_manager, the RwLock: "free" or "write"
    api_stack,      \* the window API functions and window callbacks in progress,
                    \* innermost last
    script_thread   \* the plugin thread: running, or what stopped it

lock_vars == <<wm_lock, api_stack, script_thread>>

ext_vars == <<srv_vars, proc_vars, out_vars, sweep_vars, geo_vars, cli_vars, lock_vars>>

vars == <<wm_vars, reg_vars, store_vars, loop_vars, ext_vars>>

(***************************************************************************)
(* Window manager: the state a call works on                               *)
(***************************************************************************)
WmState ==
    [managed_windows |-> managed_windows, primary_window |-> primary_window,
     screen_width |-> screen_width, screen_height |-> screen_height,
     x_screen |-> x_screen, x_crtc |-> x_crtc,
     window_geometry |-> window_geometry, window_mapped |-> window_mapped,
     requests |-> <<>>, underflow |-> FALSE, ok |-> TRUE, panicked |-> FALSE]

Failed(s) == [s EXCEPT !.ok = FALSE]
Panicked(s) == [s EXCEPT !.ok = FALSE, !.panicked = TRUE]

IsX(s, id) == s.managed_windows[id].variant = "XWindow"

\* an X request on a window succeeds iff the window still exists
XRequestOk(s, id) == ~IsX(s, id) \/ x_alive[s.managed_windows[id].window]

Configuration(s, id, aligned_geometry, z) ==
    [geometry |-> aligned_geometry, z |-> z]

\* into_geometry is evaluated for an X window, before the request is sent
computed_geometry(s, id, aligned_geometry) ==
    IF IsX(s, id) /\ underflows(aligned_geometry, s.screen_width, s.screen_height)
    THEN [s EXCEPT !.underflow = TRUE]
    ELSE s

change_window_geometry(s, id, aligned_geometry, z) ==
    LET s1 == computed_geometry(s, id, aligned_geometry)
    IN IF XRequestOk(s, id)
       THEN [s1 EXCEPT !.window_geometry[id] = Configuration(s, id, aligned_geometry, z)]
       ELSE Failed(s1)

\* the MapWindow / UnmapWindow request or the map / unmap callback that was issued
Issued(s, request, id) == [s EXCEPT !.requests = Append(@, <<request, id>>)]

map_window(s, id) ==
    IF XRequestOk(s, id)
    THEN [Issued(s, "map", id) EXCEPT !.window_mapped[id] = TRUE]
    ELSE Failed(Issued(s, "map", id))

unmap_window(s, id) ==
    IF XRequestOk(s, id)
    THEN [Issued(s, "unmap", id) EXCEPT !.window_mapped[id] = FALSE]
    ELSE Failed(Issued(s, "unmap", id))

(***************************************************************************)
(* Screen resize                                                           *)
(***************************************************************************)
\* RandR SetScreenSize: the size must lie in the server's range and hold the CRTC
randr_set_screen_size(s, w, h) ==
    IF /\ s.ok
       /\ w >= x_range.min_width /\ w <= x_range.max_width
       /\ h >= x_range.min_height /\ h <= x_range.max_height
       /\ s.x_crtc[1] <= w /\ s.x_crtc[2] <= h
    THEN [s EXCEPT !.x_screen = <<w, h>>]
    ELSE Failed(s)

\* find or create the mode, then SetCrtcConfig: the mode must fit the screen
randr_set_output_size(s, w, h) ==
    IF s.ok /\ w <= s.x_screen[1] /\ h <= s.x_screen[2]
    THEN [s EXCEPT !.x_crtc = <<w, h>>]
    ELSE Failed(s)

InvalidResolution(target_width, target_height) ==
    \/ target_width < x_range.min_width
    \/ target_width > x_range.max_width
    \/ target_height < x_range.min_width
    \/ target_height > x_range.max_height

\* variant: the final size is requested at once, without growing the screen first
ResizeSteps_direct(s, target_width, target_height) ==
    LET current_width == s.x_crtc[1]
        current_height == s.x_crtc[2]
        s3 == IF s.ok /\ (target_width < current_width \/ target_height < current_height)
              THEN randr_set_output_size(s, target_width, target_height) ELSE s
        s4 == randr_set_screen_size(s3, target_width, target_height)
        s5 == randr_set_output_size(s4, target_width, target_height)
    IN <<s, s, s3, s4, s5>>

\* the states after each of the five conditional RandR requests; a request after a
\* failed one is not sent (the ? operator returns)
ResizeSteps(s, target_width, target_height) ==
    LET current_width == s.x_crtc[1]
        current_height == s.x_crtc[2]
        s1 == IF target_width < current_width /\ target_height > current_height
              THEN randr_set_screen_size(s, current_width, target_height) ELSE s
        s2 == IF s1.ok /\ target_width > current_width /\ target_height < current_height
              THEN randr_set_screen_size(s1, target_width, current_height) ELSE s1
        s3 == IF s2.ok /\ (target_width < current_width \/ target_height < current_height)
              THEN randr_set_output_size(s2, target_width, target_height) ELSE s2
        s4 == randr_set_screen_size(s3, target_width, target_height)
        s5 == randr_set_output_size(s4, target_width, target_height)
    IN <<s1, s2, s3, s4, s5>>

change_screen_resolution(s, target_width, target_height) ==
    IF InvalidResolution(target_width, target_height) THEN Panicked(s)
    ELSE
    LET current_width == s.x_crtc[1]
        current_height == s.x_crtc[2]
        s5 == ResizeSteps(s, target_width, target_height)[5]
    IN IF current_width = target_width /\ current_height = target_height THEN s
       ELSE IF s5.ok
            THEN [s5 EXCEPT !.screen_width = target_width, !.screen_height = target_height]
            ELSE s5

(***************************************************************************)
(* Repositioning                                                           *)
(***************************************************************************)
MinWindows(s) == {id \in DOMAIN s.managed_windows : s.managed_windows[id].mode = ModeMin}

RECURSIVE ConfigureMin(_, _)
ConfigureMin(s, ids) ==
    IF ids = {} THEN s
    ELSE LET id == CHOOSE i \in ids : TRUE
         IN ConfigureMin(change_window_geometry(s, id,
                             s.managed_windows[id].min_geometry.geometry, MIN_Z),
                         ids \ {id})

\* the loop over managed_windows.values(): the map's iteration order is arbitrary,
\* so when a request fails any set of the other min windows was configured before
RepositionMinWindows(s) ==
    LET dead == {id \in MinWindows(s) : ~XRequestOk(s, id)}
    IN IF dead = {} THEN {ConfigureMin(s, MinWindows(s))}
       ELSE {Failed(ConfigureMin(s, done)) : done \in SUBSET (MinWindows(s) \ dead)}

\* variant: the screen resolution follows X-backed primaries only
reposition_windows_x_only(s) ==
    IF s.primary_window = None THEN RepositionMinWindows(s)
    ELSE IF s.primary_window \notin DOMAIN s.managed_windows THEN {Panicked(s)}
    ELSE LET mode == s.managed_windows[s.primary_window].mode
             s1 == change_window_geometry(s, s.primary_window,
                       from_width_height(mode.width, mode.height), MAX_Z)
             s2 == IF IsX(s, s.primary_window)
                   THEN change_screen_resolution(s1, mode.width, mode.height) ELSE s1
         IN IF mode.kind # "Max" THEN {Failed(s)}
            ELSE IF ~s1.ok THEN {s1}
            ELSE IF ~s2.ok THEN {s2}
            ELSE RepositionMinWindows(s2)

reposition_windows(s) ==
    IF s.primary_window = None THEN RepositionMinWindows(s)
    ELSE IF s.primary_window \notin DOMAIN s.managed_windows THEN {Panicked(s)}
    ELSE LET mode == s.managed_windows[s.primary_window].mode
             s1 == change_window_geometry(s, s.primary_window,
                       from_width_height(mode.width, mode.height), MAX_Z)
             s2 == change_screen_resolution(s1, mode.width, mode.height)
         IN IF mode.kind # "Max" THEN {Failed(s)}
            ELSE IF ~s1.ok THEN {s1}
            ELSE IF ~s2.ok THEN {s2}
            ELSE RepositionMinWindows(s2)

find_new_primary_window(s) ==
    LET max == {id \in DOMAIN s.managed_windows : s.managed_windows[id].mode.kind = "Max"}
    IN IF max = {} THEN {None} ELSE max

(***************************************************************************)
(* Mode transitions                                                        *)
(***************************************************************************)
ensure_managed(s, id) == id \in DOMAIN s.managed_windows

max_window(s, id, width, height) ==
    IF ~ensure_managed(s, id) THEN {Failed(s)}
    ELSE LET was_hidden == s.managed_windows[id].mode = ModeHidden
             s1 == [s EXCEPT !.managed_windows[id].mode = ModeMax(width, height)]
             s2 == IF was_hidden THEN map_window(s1, id) ELSE s1
         IN IF ~s2.ok THEN {s2}
            ELSE reposition_windows([s2 EXCEPT !.primary_window = id])

MinWindowTail(s, id, was_hidden) ==
    LET s1 == IF was_hidden THEN map_window(s, id) ELSE s
    IN IF ~s1.ok THEN s1
       ELSE change_window_geometry(s1, id, s1.managed_windows[id].min_geometry.geometry, MIN_Z)

min_window(s, id) ==
    IF ~ensure_managed(s, id) THEN {Failed(s)}
    ELSE LET was_hidden == s.managed_windows[id].mode = ModeHidden
             s1 == [s EXCEPT !.managed_windows[id].mode = ModeMin]
         IN IF s1.primary_window = id
            THEN UNION { { IF r.ok THEN MinWindowTail(r, id, was_hidden) ELSE r :
                             r \in reposition_windows([s1 EXCEPT !.primary_window = new]) } :
                         new \in find_new_primary_window(s1) }
            ELSE {MinWindowTail(s1, id, was_hidden)}

\* variant: hide unmaps a window that is hidden already
hide_window_again(s, id) ==
    IF ~ensure_managed(s, id) THEN {Failed(s)}
    ELSE LET s1 == [s EXCEPT !.managed_windows[id].mode = ModeHidden]
             s2 == unmap_window(s1, id)
         IN IF ~s2.ok THEN {s2}
            ELSE IF s2.primary_window = id
            THEN UNION { reposition_windows([s2 EXCEPT !.primary_window = new]) :
                         new \in find_new_primary_window(s2) }
            ELSE {s2}

hide_window(s, id) ==
    IF ~ensure_managed(s, id) THEN {Failed(s)}
    ELSE LET was_shown == s.managed_windows[id].mode # ModeHidden
             s1 == [s EXCEPT !.managed_windows[id].mode = ModeHidden]
             s2 == unmap_window(s1, id)
         IN IF ~was_shown THEN {s1}
            ELSE IF ~s2.ok THEN {s2}
            ELSE IF s2.primary_window = id
            THEN UNION { reposition_windows([s2 EXCEPT !.primary_window = new]) :
                         new \in find_new_primary_window(s2) }
            ELSE {s2}

\* variant: the entries below the key go as well
Remove_through(f, id) == [k \in {j \in DOMAIN f : j > id} |-> f[k]]

Remove(f, id) == [k \in DOMAIN f \ {id} |-> f[k]]

\* variant: an unknown id is released without complaint
release_window_unchecked(s, id) ==
    LET s1 == [s EXCEPT !.managed_windows = Remove(s.managed_windows, id),
                        !.window_geometry = Remove(s.window_geometry, id),
                        !.window_mapped = Remove(s.window_mapped, id)]
    IN IF s1.primary_window = id
       THEN UNION { reposition_windows([s1 EXCEPT !.primary_window = new]) :
                    new \in find_new_primary_window(s1) }
       ELSE {s1}

release_window(s, id) ==
    IF ~ensure_managed(s, id) THEN {Failed(s)}
    ELSE LET s1 == [s EXCEPT !.managed_windows = Remove(s.managed_windows, id),
                             !.window_geometry = Remove(s.window_geometry, id),
                             !.window_mapped = Remove(s.window_mapped, id)]
         IN IF s1.primary_window = id
            THEN UNION { reposition_windows([s1 EXCEPT !.primary_window = new]) :
                         new \in find_new_primary_window(s1) }
            ELSE {s1}

(***************************************************************************)
(* Window manager: actions                                                 *)
(***************************************************************************)
\* what the last call was, whether it succeeded, and the map and unmap requests
\* and callbacks it issued
WmCall(op, id, r) ==
    [op |-> op, id |-> id, ok |-> r.ok, requests |-> r.requests, underflow |-> r.underflow]

Apply(r, call) ==
    /\ managed_windows' = r.managed_windows
    /\ primary_window' = r.primary_window
    /\ screen_width' = r.screen_width
    /\ screen_height' = r.screen_height
    /\ x_screen' = r.x_screen
    /\ x_crtc' = r.x_crtc
    /\ window_geometry' = r.window_geometry
    /\ window_mapped' = r.window_mapped
    /\ crashed' \in IF r.underflow THEN {TRUE, r.panicked} ELSE {r.panicked}
    /\ wm_call' = call

Extend(f, id, v) == [k \in DOMAIN f \cup {id} |-> IF k = id THEN v ELSE f[k]]

Manage(s, variant, window, min_geometry, demotion) ==
    LET id == current_id
        s1 == [s EXCEPT !.managed_windows = Extend(s.managed_windows, id,
                            [variant |-> variant, window |-> window,
                             min_geometry |-> min_geometry, mode |-> ModeMin,
                             demotion |-> demotion]),
                        !.window_mapped = Extend(s.window_mapped, id, TRUE)]
    IN IF min_geometry.kind = "Dynamic" THEN Panicked(s)
       ELSE [computed_geometry(s1, id, min_geometry.geometry)
                EXCEPT !.window_geometry = Extend(s.window_geometry, id,
                           Configuration(s1, id, min_geometry.geometry, MIN_Z))]

\* variant: the id counter stays where it is
next_id_kept(id, r) == id

\* self.current_id += 1, reached only when the window was inserted
next_id(id, r) == IF r.ok THEN id + 1 ELSE id

ManageVirtualWindow(min_geometry, demotion) ==
    /\ ~crashed
    /\ current_id < MaxWindows
    /\ LET r == Manage(WmState, "VirtualWindow", 0, min_geometry, demotion)
       IN /\ Apply(r, WmCall("manage", current_id, r))
          /\ current_id' = next_id(current_id, r)
    /\ UNCHANGED <<x_range, x_alive, x_tagged>>
    /\ UNCHANGED <<reg_vars, store_vars, loop_vars, ext_vars>>

\* claim_window: get_window_by_class found the window, manage_x_window takes it.
\* When its owner has closed the window since, the ChangeProperty request fails
\* and manage_x_window returns the error.
ManageXWindow(window, min_geometry) ==
    /\ ~crashed
    /\ current_id < MaxWindows
    /\ ~x_tagged[window]
    /\ LET r == IF x_alive[window]
                THEN Manage(WmState, "XWindow", window, min_geometry, "Minimize")
                ELSE Failed(WmState)
       IN /\ Apply(r, WmCall("manage", current_id, r))
          /\ current_id' = next_id(current_id, r)
    /\ x_tagged' = [x_tagged EXCEPT ![window] = x_alive[window]]
    /\ UNCHANGED <<x_range, x_alive>>
    /\ UNCHANGED <<reg_vars, store_vars, loop_vars, ext_vars>>

\* window handles keep their id after unclaim, so any id handed out can be passed
Handles == 0..(MaxWindows - 1)

MaxWindow(id, size) ==
    /\ ~crashed
    /\ id < current_id
    /\ \E r \in max_window(WmState, id, size[1], size[2]) :
          Apply(r, WmCall("max", id, r))
    /\ UNCHANGED <<current_id, x_range, x_alive, x_tagged>>
    /\ UNCHANGED <<reg_vars, store_vars, loop_vars, ext_vars>>

MinWindow(id) ==
    /\ ~crashed
    /\ id < current_id
    /\ \E r \in min_window(WmState, id) : Apply(r, WmCall("min", id, r))
    /\ UNCHANGED <<current_id, x_range, x_alive, x_tagged>>
    /\ UNCHANGED <<reg_vars, store_vars, loop_vars, ext_vars>>

HideWindow(id) ==
    /\ ~crashed
    /\ id < current_id
    /\ \E r \in hide_window(WmState, id) : Apply(r, WmCall("hide", id, r))
    /\ UNCHANGED <<current_id, x_range, x_alive, x_tagged>>
    /\ UNCHANGED <<reg_vars, store_vars, loop_vars, ext_vars>>

ReleaseWindow(id) ==
    /\ ~crashed
    /\ id < current_id
    /\ \E r \in release_window(WmState, id) : Apply(r, WmCall("unclaim", id, r))
    /\ UNCHANGED <<current_id, x_range, x_alive, x_tagged>>
    /\ UNCHANGED <<reg_vars, store_vars, loop_vars, ext_vars>>

\* neopult.api.reposition_windows()
RepositionWindows ==
    /\ ~crashed
    /\ \E r \in reposition_windows(WmState) : Apply(r, WmCall("reposition", None, r))
    /\ UNCHANGED <<current_id, x_range, x_alive, x_tagged>>
    /\ UNCHANGED <<reg_vars, store_vars, loop_vars, ext_vars>>

NoCall ==
    [op |-> "none", id |-> None, ok |-> TRUE, requests |-> <<>>, underflow |-> FALSE]

\* the client that owns a claimed X window closes it
DestroyXWindow(window) ==
    /\ ~crashed
    /\ x_alive[window]
    /\ x_alive' = [x_alive EXCEPT ![window] = FALSE]
    /\ wm_call' = NoCall
    /\ UNCHANGED <<managed_windows, primary_window, screen_width, screen_height,
                   current_id, x_range, x_screen, x_crtc, x_tagged, window_geometry,
                   window_mapped, crashed>>
    /\ UNCHANGED <<reg_vars, store_vars, loop_vars, ext_vars>>

WmInit(range) ==
    /\ managed_windows = <<>>
    /\ primary_window = None
    /\ screen_width = InitialScreen[1]
    /\ screen_height = InitialScreen[2]
    /\ current_id = 0
    /\ x_range = range
    /\ x_screen = InitialScreen
    /\ x_crtc = InitialScreen
    /\ x_alive = [w \in XWindows |-> TRUE]
    /\ x_tagged = [w \in XWindows |-> FALSE]
    /\ window_geometry = <<>>
    /\ window_mapped = <<>>
    /\ crashed = FALSE
    /\ wm_call = NoCall

WmNext ==
    \/ \E o \in VirtualWindowOptions :
          ManageVirtualWindow(o.min_geometry, o.primary_demotion_action)
    \/ \E w \in XWindows, g \in ClaimWindowOptions : ManageXWindow(w, g)
    \/ \E id \in Handles, size \in MaxSizes : MaxWindow(id, size)
    \/ \E id \in Handles : MinWindow(id)
    \/ \E id \in Handles : HideWindow(id)
    \/ \E id \in Handles : ReleaseWindow(id)
    \/ RepositionWindows
    \/ \E w \in XWindows : DestroyXWindow(w)

\* sizes of max modes, one of them smaller than the default min geometry
SmallSizes == {<<1024, 768>>, <<320, 240>>}

\* the window manager calls with windows created without options and a small
\* max size
WmSmallNext ==
    \/ ManageVirtualWindow(MinGeometryDefault, "Minimize")
    \/ \E w \in XWindows : ManageXWindow(w, MinGeometryDefault)
    \/ \E id \in Handles, size \in SmallSizes : MaxWindow(id, size)
    \/ \E id \in Handles : MinWindow(id)
    \/ \E id \in Handles : HideWindow(id)
    \/ \E id \in Handles : ReleaseWindow(id)
    \/ RepositionWindows
    \/ \E w \in XWindows : DestroyXWindow(w)

\* the window manager calls when every window is created without options
WmDefaultNext ==
    \/ ManageVirtualWindow(MinGeometryDefault, "Minimize")
    \/ \E w \in XWindows : ManageXWindow(w, MinGeometryDefault)
    \/ \E id \in Handles, size \in MaxSizes : MaxWindow(id, size)
    \/ \E id \in Handles : MinWindow(id)
    \/ \E id \in Handles : HideWindow(id)
    \/ \E id \in Handles : ReleaseWindow(id)
    \/ RepositionWindows
    \/ \E w \in XWindows : DestroyXWindow(w)

(***************************************************************************)
(* Plugin registry                                                         *)
(***************************************************************************)
PluginInstanceNames == {"p", "q"}
ModuleNames == {"m", "n"}
ActionNames == {"a", "b"}

PluginInstance(name) == [name |-> name, modules |-> <<>>]

Module(name) == [name |-> name, actions |-> <<>>, active_actions |-> {}]

Action(name, key) == [name |-> name, key |-> key]

HasName(entries, name) == \E i \in DOMAIN entries : entries[i].name = name

Elements(list) == {list[i] : i \in DOMAIN list}

register_plugin_instance(instances, name) ==
    IF HasName(instances, name) THEN instances
    ELSE Append(instances, PluginInstance(name))

\* variant: no duplicate check
register_module_unchecked(modules, name) == Append(modules, Module(name))

register_module(modules, name) ==
    IF HasName(modules, name) THEN modules
    ELSE Append(modules, Module(name))

register_action(actions, name, key) ==
    IF HasName(actions, name) THEN actions
    ELSE Append(actions, Action(name, key))

\* variant: the set is extended without being cleared first
set_active_actions_no_clear(module, actions) ==
    [module EXCEPT !.active_actions = module.active_actions \cup Elements(actions)]

set_active_actions(module, actions) ==
    LET cleared == [module EXCEPT !.active_actions = {}]
    IN [cleared EXCEPT !.active_actions = cleared.active_actions \cup Elements(actions)]

ActionInfo(action) == [name |-> action.name]

ModuleInfo(module) ==
    [name |-> module.name,
     actions |-> [i \in DOMAIN module.actions |-> ActionInfo(module.actions[i])],
     active_actions |-> module.active_actions]

PluginInstanceInfo(instance) ==
    [name |-> instance.name,
     modules |-> [i \in DOMAIN instance.modules |-> ModuleInfo(instance.modules[i])]]

system_info(instances) ==
    [plugin_instances |-> [i \in DOMAIN instances |-> PluginInstanceInfo(instances[i])]]

RECURSIVE Sum(_, _)
Sum(f, dom) ==
    IF dom = {} THEN 0
    ELSE LET x == CHOOSE y \in dom : TRUE IN f[x] + Sum(f, dom \ {x})

ModuleCount ==
    Sum([i \in DOMAIN plugin_instances |-> Len(plugin_instances[i].modules)],
        DOMAIN plugin_instances)

ActionCount == next_key

PluginInstanceHandles == 1..MaxPluginInstances

\* a module handle: plugin instance and position in its modules
ModuleHandles == PluginInstanceHandles \X (1..MaxModules)

\* the module handle was returned by register_module
IsModuleHandle(i, j) ==
    IF i \in DOMAIN plugin_instances
    THEN j \in DOMAIN plugin_instances[i].modules ELSE FALSE

RegCall(op, i, j, name, actions, ret) ==
    [op |-> op, plugin_instance |-> i, module |-> j, name |-> name,
     actions |-> actions, ret |-> ret]

NoRegCall == RegCall("none", 0, 0, "", <<>>, "nil")

RegisterPluginInstance(name) ==
    /\ HasName(plugin_instances, name) \/ Len(plugin_instances) < MaxPluginInstances
    /\ plugin_instances' = register_plugin_instance(plugin_instances, name)
    /\ reg_call' = RegCall("register_plugin_instance", 0, 0, name, <<>>,
                           IF HasName(plugin_instances, name) THEN "nil" ELSE "handle")
    /\ UNCHANGED next_key
    /\ UNCHANGED <<wm_vars, store_vars, loop_vars, ext_vars>>

RegisterModule(i, name) ==
    /\ i \in DOMAIN plugin_instances
    /\ HasName(plugin_instances[i].modules, name) \/ ModuleCount < MaxModules
    /\ plugin_instances' =
           [plugin_instances EXCEPT ![i].modules = register_module(@, name)]
    /\ reg_call' = RegCall("register_module", i, 0, name, <<>>,
                           IF HasName(plugin_instances[i].modules, name)
                           THEN "nil" ELSE "handle")
    /\ UNCHANGED next_key
    /\ UNCHANGED <<wm_vars, store_vars, loop_vars, ext_vars>>

RegisterAction(i, j, name) ==
    /\ IsModuleHandle(i, j)
    /\ HasName(plugin_instances[i].modules[j].actions, name) \/ ActionCount < MaxActions
    /\ plugin_instances' =
           [plugin_instances EXCEPT ![i].modules[j].actions =
                register_action(@, name, next_key)]
    /\ next_key' = IF HasName(plugin_instances[i].modules[j].actions, name)
                   THEN next_key ELSE next_key + 1
    /\ reg_call' = RegCall("register_action", i, j, name, <<>>, "nil")
    /\ UNCHANGED <<wm_vars, store_vars, loop_vars, ext_vars>>

SetActiveActions(i, j, actions) ==
    /\ IsModuleHandle(i, j)
    /\ plugin_instances' =
           [plugin_instances EXCEPT ![i].modules[j] = set_active_actions(@, actions)]
    /\ reg_call' = RegCall("set_active_actions", i, j, "", actions, "nil")
    /\ UNCHANGED next_key
    /\ UNCHANGED <<wm_vars, store_vars, loop_vars, ext_vars>>

ActionLists == UNION {[1..n -> ActionNames] : n \in 0..MaxActiveLen}

RegInit ==
    /\ plugin_instances = <<>>
    /\ next_key = 0
    /\ reg_call = NoRegCall

RegNext ==
    \/ \E name \in PluginInstanceNames : RegisterPluginInstance(name)
    \/ \E i \in PluginInstanceHandles, name \in ModuleNames : RegisterModule(i, name)
    \/ \E h \in ModuleHandles, name \in ActionNames : RegisterAction(h[1], h[2], name)
    \/ \E h \in ModuleHandles, actions \in ActionLists : SetActiveActions(h[1], h[2], actions)

(***************************************************************************)
(* Store                                                                   *)
(***************************************************************************)
StoreValues == {1, 2}

SubscriptionKeys == 0..(MaxSubscriptions - 1)

NoCalls == [k \in SubscriptionKeys |-> <<>>]

\* a set call in progress: its value, the callbacks collected before the first is
\* called, those not called yet, the one running, and the calls made so far
SetFrame(value, callbacks) ==
    [value |-> value, callbacks |-> callbacks, pending |-> callbacks,
     running |-> None, calls |-> NoCalls]

NoSet == [value |-> 0, callbacks |-> {}, pending |-> {}, running |-> None,
          calls |-> NoCalls, returned |-> FALSE]

Depth == Len(set_stack)

Top == set_stack[Depth]

\* script code runs at top level or inside the running subscriber callback
ScriptRuns == IF Depth = 0 THEN TRUE ELSE Top.running # None

\* variant: the loop walks the live subscriber set instead of the collected list
PendingCallbacks_live(frame) ==
    {k \in subscriber_callbacks : frame.calls[k] = <<>>}

PendingCallbacks(frame) == frame.pending

\* store:set(value): store the value and collect the subscriber callbacks
StoreSet(value) ==
    /\ ScriptRuns
    /\ Depth < MaxSetDepth
    /\ store_value' = value
    /\ set_stack' = Append(set_stack, SetFrame(value, subscriber_callbacks))
    /\ completed_set' = NoSet
    /\ UNCHANGED <<subscriber_callbacks, next_subscription, last_delivered>>
    /\ UNCHANGED <<wm_vars, reg_vars, loop_vars, ext_vars>>

\* the loop of set calls the next callback with the value of this set call
CallSubscriber(k) ==
    /\ Depth > 0
    /\ Top.running = None
    /\ k \in PendingCallbacks(Top)
    /\ set_stack' = [set_stack EXCEPT ![Depth] =
                        [@ EXCEPT !.pending = @ \ {k}, !.running = k,
                                  !.calls[k] = Append(@, Top.value)]]
    /\ last_delivered' = [last_delivered EXCEPT ![k] = Top.value]
    /\ completed_set' = NoSet
    /\ UNCHANGED <<store_value, subscriber_callbacks, next_subscription>>
    /\ UNCHANGED <<wm_vars, reg_vars, loop_vars, ext_vars>>

\* the running callback returns (or raises: the error is logged)
SubscriberReturns ==
    /\ Depth > 0
    /\ Top.running # None
    /\ set_stack' = [set_stack EXCEPT ![Depth].running = None]
    /\ completed_set' = NoSet
    /\ UNCHANGED <<store_value, subscriber_callbacks, next_subscription, last_delivered>>
    /\ UNCHANGED <<wm_vars, reg_vars, loop_vars, ext_vars>>

\* the loop of set is over and set returns
StoreSetReturns ==
    /\ Depth > 0
    /\ Top.running = None
    /\ PendingCallbacks(Top) = {}
    /\ set_stack' = SubSeq(set_stack, 1, Depth - 1)
    /\ completed_set' = [value |-> Top.value, callbacks |-> Top.callbacks,
                         pending |-> Top.pending, running |-> None,
                         calls |-> Top.calls, returned |-> TRUE]
    /\ UNCHANGED <<store_value, subscriber_callbacks, next_subscription, last_delivered>>
    /\ UNCHANGED <<wm_vars, reg_vars, loop_vars, ext_vars>>

StoreSubscribe ==
    /\ ScriptRuns
    /\ next_subscription < MaxSubscriptions
    /\ subscriber_callbacks' = subscriber_callbacks \cup {next_subscription}
    /\ next_subscription' = next_subscription + 1
    /\ completed_set' = NoSet
    /\ UNCHANGED <<store_value, set_stack, last_delivered>>
    /\ UNCHANGED <<wm_vars, reg_vars, loop_vars, ext_vars>>

\* any subscription handed out can be passed, also one unsubscribed before
StoreUnsubscribe(k) ==
    /\ ScriptRuns
    /\ k < next_subscription
    /\ subscriber_callbacks' = subscriber_callbacks \ {k}
    /\ completed_set' = NoSet
    /\ UNCHANGED <<store_value, next_subscription, set_stack, last_delivered>>
    /\ UNCHANGED <<wm_vars, reg_vars, loop_vars, ext_vars>>

StoreInit ==
    /\ store_value = 1
    /\ subscriber_callbacks = {}
    /\ next_subscription = 0
    /\ set_stack = <<>>
    /\ completed_set = NoSet
    /\ last_delivered = [k \in SubscriptionKeys |-> None]

StoreNext ==
    \/ \E value \in StoreValues : StoreSet(value)
    \/ \E k \in SubscriptionKeys : CallSubscriber(k)
    \/ SubscriberReturns
    \/ StoreSetReturns
    \/ StoreSubscribe
    \/ \E k \in SubscriptionKeys : StoreUnsubscribe(k)

(***************************************************************************)
(* Event loop and deferred tasks                                           *)
(***************************************************************************)
\* script code is running: the plugins are loaded, a deferred task, an event
\* handler or the cleanup callbacks run
LuaRuns == loop_pc \in {"load", "task", "event", "cleanup"}

pop_front(tasks) == [task |-> Head(tasks), rest |-> Tail(tasks)]

\* neopult.api.run_later(func)
RunLater ==
    /\ LuaRuns
    /\ next_task < MaxTasks
    /\ run_later_tasks' = Append(run_later_tasks, next_task)
    /\ next_task' = next_task + 1
    /\ UNCHANGED <<loop_pc, event_loop_counter, executed, loop_errors>>
    /\ UNCHANGED <<wm_vars, reg_vars, store_vars, ext_vars>>

\* the plugins are loaded and the event loop starts
StartEventLoop ==
    /\ loop_pc = "load"
    /\ loop_pc' = "drain"
    /\ UNCHANGED <<run_later_tasks, next_task, event_loop_counter, executed, loop_errors>>
    /\ UNCHANGED <<wm_vars, reg_vars, store_vars, ext_vars>>

\* while let Some(func_key) = pop_front(): call the function
CallTask ==
    /\ loop_pc = "drain"
    /\ run_later_tasks # <<>>
    /\ LET popped == pop_front(run_later_tasks)
       IN /\ run_later_tasks' = popped.rest
          /\ executed' = Append(executed, popped.task)
    /\ loop_pc' = "task"
    /\ UNCHANGED <<next_task, event_loop_counter, loop_errors>>
    /\ UNCHANGED <<wm_vars, reg_vars, store_vars, ext_vars>>

\* variant: an error of the callback ends the loop
after_call_propagated(ok) == IF ok THEN "drain" ELSE "done"

\* if let Err(e) = func.call(..) { error!(..) }: the loop goes on after the
\* callback, whether it returned or raised
after_call(ok) == "drain"

\* the error of a callback is logged
log_error(errors, ok) == IF ok THEN errors ELSE errors + 1

\* the deferred task returns, or raises an error
TaskReturns(ok) ==
    /\ loop_pc = "task"
    /\ ok \/ loop_errors < MaxErrors
    /\ loop_pc' = after_call(ok)
    /\ loop_errors' = log_error(loop_errors, ok)
    /\ UNCHANGED <<run_later_tasks, next_task, event_loop_counter, executed>>
    /\ UNCHANGED <<wm_vars, reg_vars, store_vars, ext_vars>>

\* the queue is empty, the loop waits for an event and receives one
ReceiveEvent ==
    /\ loop_pc = "drain"
    /\ run_later_tasks = <<>>
    /\ loop_pc' = "event"
    /\ UNCHANGED <<run_later_tasks, next_task, event_loop_counter, executed, loop_errors>>
    /\ UNCHANGED <<wm_vars, reg_vars, store_vars, ext_vars>>

\* handle_event returns; the callback it called returned, or raised an error
EventHandled(ok) ==
    /\ loop_pc = "event"
    /\ ok \/ loop_errors < MaxErrors
    /\ loop_pc' = after_call(ok)
    /\ loop_errors' = log_error(loop_errors, ok)
    /\ event_loop_counter' = IF event_loop_counter + 1 > ExpireInterval
                             THEN 0 ELSE event_loop_counter + 1
    /\ UNCHANGED <<run_later_tasks, next_task, executed>>
    /\ UNCHANGED <<wm_vars, reg_vars, store_vars, ext_vars>>

\* the queue is empty, the loop waits and the shutdown signal (or the closed event
\* channel) ends it: the cleanup callbacks of the plugin instances run
ReceiveShutdown ==
    /\ loop_pc = "drain"
    /\ run_later_tasks = <<>>
    /\ loop_pc' = "cleanup"
    /\ UNCHANGED <<run_later_tasks, next_task, event_loop_counter, executed, loop_errors>>
    /\ UNCHANGED <<wm_vars, reg_vars, store_vars, ext_vars>>

\* the cleanup callbacks are through, event_loop returns
EventLoopReturns ==
    /\ loop_pc = "cleanup"
    /\ loop_pc' = "done"
    /\ UNCHANGED <<run_later_tasks, next_task, event_loop_counter, executed, loop_errors>>
    /\ UNCHANGED <<wm_vars, reg_vars, store_vars, ext_vars>>

LoopInit ==
    /\ run_later_tasks = <<>>
    /\ next_task = 0
    /\ loop_pc = "load"
    /\ event_loop_counter = 0
    /\ executed = <<>>
    /\ loop_errors = 0

LoopNext ==
    \/ RunLater
    \/ StartEventLoop
    \/ CallTask
    \/ \E ok \in BOOLEAN : TaskReturns(ok)
    \/ ReceiveEvent
    \/ \E ok \in BOOLEAN : EventHandled(ok)
    \/ ReceiveShutdown
    \/ EventLoopReturns

(***************************************************************************)
(* Notification bus, websocket sessions and action calls                   *)
(***************************************************************************)
\* one websocket client
Sessions == {1}

\* text is a sequence of characters
PasswordPrefix == <<"P", "a", "s", "s", "w", "o", "r", "d", " ">>

\* an Option: no value, or one value
Nil == <<>>

Some(value) == <<value>>

\* str.strip_prefix(prefix): the rest of the text, if it starts with the prefix
strip_prefix(text, prefix) ==
    IF Len(text) >= Len(prefix) /\ SubSeq(text, 1, Len(prefix)) = prefix
    THEN Some(SubSeq(text, Len(prefix) + 1, Len(text)))
    ELSE Nil

Byte(char) ==
    CASE char = "p" -> 112 [] char = "w" -> 119 [] char = "x" -> 120
      [] char = " " -> 32 [] OTHER -> 63

\* a 16 bit polynomial digest stands for SHA-256; the passwords of the model
\* have pairwise different digests
RECURSIVE Sha256(_)
Sha256(text) ==
    IF text = <<>> THEN 7
    ELSE (31 * Sha256(SubSeq(text, 1, Len(text) - 1)) + Byte(text[Len(text)])) % U16

\* the password of the configuration, and what the server keeps of it
websocket_password == <<"p", "w">>

websocket_password_hash == Sha256(websocket_password)

Text(text) == [type |-> "text", text |-> text]

\* what the client may send first: the password, a wrong password, text without
\* the prefix, the prefix alone, a binary frame, or nothing (it closes)
FirstFrames ==
    {Text(PasswordPrefix \o <<"p", "w">>), Text(PasswordPrefix \o <<"p", "x">>),
     Text(<<"p", "w">>), Text(PasswordPrefix),
     [type |-> "binary", text |-> <<>>], [type |-> "closed", text |-> <<>>]}

\* variant: the password is not compared
is_authenticated_any_password(msg) ==
    IF msg.type = "text" THEN strip_prefix(msg.text, PasswordPrefix) # Nil ELSE FALSE

\* the first message decides whether the session is authenticated
is_authenticated(msg) ==
    IF msg.type = "text"
    THEN LET got_password == strip_prefix(msg.text, PasswordPrefix)
         IN IF got_password = Nil THEN FALSE
            ELSE websocket_password_hash = Sha256(got_password[1])
    ELSE FALSE

\* frames the server sends
Frame(type, body) == [type |-> type, body |-> body]

CLOSE_MSG_AUTH == Frame("close", [code |-> CLOSE_CODE_AUTH, reason |-> "auth"])

CLOSE_MSG_AUTH_TIMEOUT ==
    Frame("close", [code |-> CLOSE_CODE_AUTH_TIMEOUT, reason |-> "auth_timeout"])

ServerResponse(request_id, success, message) ==
    Frame("response", [request_id |-> request_id, success |-> success,
                       message |-> message])

ActionIdentifier(plugin_instance, module, action) ==
    [plugin_instance |-> plugin_instance, module |-> module, action |-> action]

ModuleIdentifier(plugin_instance, module) ==
    [plugin_instance |-> plugin_instance, module |-> module]

NoIdentifier == ActionIdentifier("", "", "")

\* the registry after the plugins were loaded: two plugin instances with one
\* module each, the first with two actions
LoadedPluginInstances ==
    LET p == [PluginInstance("p") EXCEPT !.modules =
                 <<[Module("m") EXCEPT !.actions = <<Action("a", 0), Action("b", 1)>>]>>]
        q == [PluginInstance("q") EXCEPT !.modules =
                 <<[Module("n") EXCEPT !.actions = <<Action("a", 2)>>]>>]
    IN <<p, q>>

LoadedModules == {<<1, 1>>, <<2, 1>>}

\* the identifier of the module behind a module handle
module_identifier(h) ==
    ModuleIdentifier(plugin_instances[h[1]].name,
                     plugin_instances[h[1]].modules[h[2]].name)

\* iter().find(|e| e.name == name): the first entry with the name, 0 if none
find(entries, name) ==
    IF HasName(entries, name)
    THEN CHOOSE i \in DOMAIN entries :
             /\ entries[i].name = name
             /\ \A j \in DOMAIN entries : entries[j].name = name => i <= j
    ELSE 0

\* variant: the action is looked up in the first module of the plugin instance
resolve_action_first_module(instances, identifier) ==
    LET i == find(instances, identifier.plugin_instance)
    IN IF i = 0 THEN [ok |-> FALSE, key |-> None, error |-> "no plugin instance"]
       ELSE LET k == find(instances[i].modules[1].actions, identifier.action)
            IN IF k = 0
               THEN [ok |-> FALSE, key |-> None, error |-> "no action"]
               ELSE [ok |-> TRUE, error |-> "",
                     key |-> instances[i].modules[1].actions[k].key]

\* call_action up to the call of the callback: the registry key of the
\* callback to call, or the error
resolve_action(instances, identifier) ==
    LET i == find(instances, identifier.plugin_instance)
    IN IF i = 0 THEN [ok |-> FALSE, key |-> None, error |-> "no plugin instance"]
       ELSE LET j == find(instances[i].modules, identifier.module)
            IN IF j = 0 THEN [ok |-> FALSE, key |-> None, error |-> "no module"]
               ELSE LET k == find(instances[i].modules[j].actions, identifier.action)
                    IN IF k = 0
                       THEN [ok |-> FALSE, key |-> None, error |-> "no action"]
                       ELSE [ok |-> TRUE, error |-> "",
                             key |-> instances[i].modules[j].actions[k].key]

\* the identifiers a client asks for: two registered actions, an action, a
\* module and a plugin instance that do not exist
RequestIdentifiers ==
    {ActionIdentifier("p", "m", "a"), ActionIdentifier("q", "n", "a"),
     ActionIdentifier("q", "n", "b"), ActionIdentifier("p", "n", "a"),
     ActionIdentifier("r", "m", "a")}

\* the identifier typed at the terminal
TerminalIdentifiers == {ActionIdentifier("p", "m", "b")}

\* events on the channel to the plugin thread
Event(kind, session, request_id, identifier) ==
    [kind |-> kind, session |-> session, request_id |-> request_id,
     identifier |-> identifier]

NoEvent == Event("none", 0, 0, NoIdentifier)

\* notifications; cause is the event during whose handling it was sent
Notification(type, id, value, cause) ==
    [type |-> type, module_identifier |-> id, value |-> value, cause |-> cause]

StatusValues == {Nil, Some("active")}

MessageValues == {Nil, Some("hello")}

SetCall(op, h, value) == [op |-> op, module |-> h, value |-> value]

NoSetCall == SetCall("none", <<0, 0>>, Nil)

\* the setter calls the callbacks of the loaded plugins make
ScriptCalls ==
    {SetCall("set_status", <<1, 1>>, Some("active")),
     SetCall("set_message", <<2, 1>>, Nil),
     SetCall("set_active_actions", <<1, 1>>, <<"a">>)}

\* variant: the notification is not sent
send_dropped(log, notification) == log

\* broadcast::Sender::send
send(log, notification) == Append(log, notification)

\* broadcast::Receiver::recv for a receiver that has seen the first cursor
\* notifications: the channel keeps the last BusCapacity values
recv(log, cursor) ==
    IF Len(log) - cursor > BusCapacity
    THEN [result |-> "Lagged", skipped |-> Len(log) - cursor - BusCapacity,
          cursor |-> Len(log) - BusCapacity]
    ELSE IF cursor < Len(log)
         THEN [result |-> "Ok", notification |-> log[cursor + 1], cursor |-> cursor + 1]
         ELSE [result |-> "Empty", cursor |-> cursor]

\* a websocket session: where its task is, the frames it has sent, its place
\* on the bus, the reply slot of the oneshot channel it waits on
NoSession ==
    [pc |-> "none", frames |-> <<>>, cursor |-> 0, subscribed_at |-> 0,
     lagged |-> FALSE, elapsed |-> 0, first |-> [type |-> "none", text |-> <<>>],
     rx |-> Nil, request_id |-> 0, identifier |-> NoIdentifier, requests |-> <<>>]

\* variant: the session also takes notifications while it waits for a reply
select_polls_while_waiting(session) == session.pc \in {"loop", "reply"}

\* the session is in its select loop, not inside one of the arms
select_polls(session) == session.pc = "loop"

\* the event of the request the session waits on was answered: the reply is
\* put into the oneshot channel (nobody listens if the session is gone)
Reply(ss, event, reply) ==
    IF event.session \in Sessions
    THEN IF ss[event.session].pc \in {"info", "reply"}
         THEN [ss EXCEPT ![event.session].rx = Some(reply)]
         ELSE ss
    ELSE ss

\* sender.send(frame) and what the session does next; the send fails when the
\* client is gone and the session ends
Sent(session, frame, ok, pc) ==
    IF ok THEN [session EXCEPT !.frames = Append(@, frame), !.pc = pc]
    ELSE [session EXCEPT !.pc = "closed"]

\* a client opens the websocket
ClientConnects(s) ==
    /\ sessions[s].pc = "none"
    /\ sessions' = [sessions EXCEPT ![s].pc = "auth"]
    /\ set_call' = NoSetCall
    /\ UNCHANGED <<module_status, module_message, bus_log, event_queue, ps, next_request>>
    /\ UNCHANGED <<wm_vars, reg_vars, store_vars, loop_vars, proc_vars, out_vars, sweep_vars,
                 geo_vars, cli_vars, lock_vars>>

\* a second passes while the session waits for the first message
AuthTick(s) ==
    /\ sessions[s].pc = "auth"
    /\ sessions[s].elapsed < AUTH_TIMEOUT
    /\ sessions' = [sessions EXCEPT ![s].elapsed = @ + 1]
    /\ set_call' = NoSetCall
    /\ UNCHANGED <<module_status, module_message, bus_log, event_queue, ps, next_request>>
    /\ UNCHANGED <<wm_vars, reg_vars, store_vars, loop_vars, proc_vars, out_vars, sweep_vars,
                 geo_vars, cli_vars, lock_vars>>

\* the timeout of the first message expires
AuthTimeout(s) ==
    /\ sessions[s].pc = "auth"
    /\ sessions[s].elapsed = AUTH_TIMEOUT
    /\ \E ok \in BOOLEAN :
           sessions' = [sessions EXCEPT ![s] =
                           [Sent(@, CLOSE_MSG_AUTH_TIMEOUT, ok, "closed")
                               EXCEPT !.pc = "closed", !.elapsed = 0]]
    /\ set_call' = NoSetCall
    /\ UNCHANGED <<module_status, module_message, bus_log, event_queue, ps, next_request>>
    /\ UNCHANGED <<wm_vars, reg_vars, store_vars, loop_vars, proc_vars, out_vars, sweep_vars,
                 geo_vars, cli_vars, lock_vars>>

\* the first message arrives in time: an authenticated session subscribes to
\* the bus and asks the plugin thread for the system info, any other is closed
ReceiveFirstMessage(s, msg) ==
    /\ sessions[s].pc = "auth"
    /\ sessions[s].elapsed < AUTH_TIMEOUT
    /\ IF is_authenticated(msg)
       THEN /\ Len(event_queue) < MaxQueue
            /\ sessions' = [sessions EXCEPT ![s].pc = "info", ![s].first = msg,
                                            ![s].elapsed = 0,
                                            ![s].cursor = Len(bus_log),
                                            ![s].subscribed_at = Len(bus_log)]
            /\ event_queue' = Append(event_queue,
                                     Event("FetchSystemInfo", s, 0, NoIdentifier))
       ELSE /\ \E ok \in BOOLEAN :
                   sessions' = [sessions EXCEPT ![s] =
                                   [Sent([@ EXCEPT !.first = msg], CLOSE_MSG_AUTH, ok,
                                         "closed") EXCEPT !.pc = "closed",
                                                          !.elapsed = 0]]
            /\ UNCHANGED event_queue
    /\ set_call' = NoSetCall
    /\ UNCHANGED <<module_status, module_message, bus_log, ps, next_request>>
    /\ UNCHANGED <<wm_vars, reg_vars, store_vars, loop_vars, proc_vars, out_vars, sweep_vars,
                 geo_vars, cli_vars, lock_vars>>

\* variant: the session subscribes to the bus when the system info has come
notification_receiver_late(session, log) == Len(log)

\* the place on the bus of the receiver the session enters its loop with: the
\* one it created before it asked for the system info
notification_receiver(session, log) == session.cursor

\* the reply with the system info arrives and is sent to the client
SendSystemInfo(s) ==
    /\ sessions[s].pc = "info"
    /\ sessions[s].rx # Nil
    /\ \E ok \in BOOLEAN :
           sessions' = [sessions EXCEPT ![s] =
                           [Sent(@, Frame("system_info", sessions[s].rx[1]), ok, "loop")
                               EXCEPT !.rx = Nil,
                                      !.cursor = notification_receiver(sessions[s],
                                                                       bus_log)]]
    /\ set_call' = NoSetCall
    /\ UNCHANGED <<module_status, module_message, bus_log, event_queue, ps, next_request>>
    /\ UNCHANGED <<wm_vars, reg_vars, store_vars, loop_vars, proc_vars, out_vars, sweep_vars,
                 geo_vars, cli_vars, lock_vars>>

\* select: the heartbeat interval ticks; the client timed out, or a ping is sent
Heartbeat(s) ==
    /\ sessions[s].pc = "loop"
    /\ Len(sessions[s].frames) < MaxFrames
    /\ \E timed_out \in BOOLEAN, ok \in BOOLEAN :
           sessions' = [sessions EXCEPT ![s] =
                           IF timed_out THEN [@ EXCEPT !.pc = "closed"]
                           ELSE Sent(@, Frame("ping", Nil), ok, "loop")]
    /\ set_call' = NoSetCall
    /\ UNCHANGED <<module_status, module_message, bus_log, event_queue, ps, next_request>>
    /\ UNCHANGED <<wm_vars, reg_vars, store_vars, loop_vars, proc_vars, out_vars, sweep_vars,
                 geo_vars, cli_vars, lock_vars>>

\* variant: a lag ends the session
on_lagged_break(session, received) ==
    [session EXCEPT !.cursor = received.cursor, !.lagged = TRUE, !.pc = "closed"]

\* Err(RecvError::Lagged(skipped)): the receiver was moved to the oldest value
\* the channel still holds, the arm logs a warning and continues the loop
on_lagged(session, received) ==
    [session EXCEPT !.cursor = received.cursor, !.lagged = TRUE]

\* select: the bus has something for the session; a notification is sent to
\* the client, a lag is logged
ReceiveNotification(s) ==
    /\ select_polls(sessions[s])
    /\ Len(sessions[s].frames) < MaxFrames
    /\ LET received == recv(bus_log, sessions[s].cursor)
       IN /\ received.result # "Empty"
          /\ IF received.result = "Lagged"
             THEN sessions' = [sessions EXCEPT ![s] = on_lagged(@, received)]
             ELSE \E ok \in BOOLEAN :
                      sessions' = [sessions EXCEPT ![s] =
                          Sent([@ EXCEPT !.cursor = received.cursor],
                               Frame("notification", received.notification), ok,
                               sessions[s].pc)]
    /\ set_call' = NoSetCall
    /\ UNCHANGED <<module_status, module_message, bus_log, event_queue, ps, next_request>>
    /\ UNCHANGED <<wm_vars, reg_vars, store_vars, loop_vars, proc_vars, out_vars, sweep_vars,
                 geo_vars, cli_vars, lock_vars>>

\* select: the client asks for an action; the command goes to the plugin
\* thread and the session waits for the reply
ReceiveRequest(s, identifier) ==
    /\ sessions[s].pc = "loop"
    /\ Len(sessions[s].frames) < MaxFrames
    /\ next_request <= MaxRequests
    /\ Len(event_queue) < MaxQueue
    /\ sessions' = [sessions EXCEPT ![s].pc = "reply", ![s].request_id = next_request,
                                    ![s].identifier = identifier,
                                    ![s].requests = Append(@, next_request)]
    /\ event_queue' = Append(event_queue,
                             Event("ClientCommand", s, next_request, identifier))
    /\ next_request' = next_request + 1
    /\ set_call' = NoSetCall
    /\ UNCHANGED <<module_status, module_message, bus_log, ps>>
    /\ UNCHANGED <<wm_vars, reg_vars, store_vars, loop_vars, proc_vars, out_vars, sweep_vars,
                 geo_vars, cli_vars, lock_vars>>

\* the reply of the plugin thread arrives and the response is sent
SendResponse(s) ==
    /\ sessions[s].pc = "reply"
    /\ sessions[s].rx # Nil
    /\ LET reply == sessions[s].rx[1]
           response == ServerResponse(sessions[s].request_id, reply.ok,
                                      IF reply.ok THEN Nil ELSE Some(reply.error))
       IN \E ok \in BOOLEAN :
              sessions' = [sessions EXCEPT ![s] =
                              [Sent(@, response, ok, "loop")
                                  EXCEPT !.rx = Nil, !.identifier = NoIdentifier]]
    /\ set_call' = NoSetCall
    /\ UNCHANGED <<module_status, module_message, bus_log, event_queue, ps, next_request>>
    /\ UNCHANGED <<wm_vars, reg_vars, store_vars, loop_vars, proc_vars, out_vars, sweep_vars,
                 geo_vars, cli_vars, lock_vars>>

\* select: the client sends text that is no message, or a ping (a pong only
\* resets the heartbeat timer)
ReceiveOther(s, kind) ==
    /\ sessions[s].pc = "loop"
    /\ Len(sessions[s].frames) < MaxFrames
    /\ \E ok \in BOOLEAN :
           sessions' = [sessions EXCEPT ![s] =
               CASE kind = "garbage" -> Sent(@, Frame("error", Some("parse_error")), ok,
                                             "loop")
                 [] kind = "ping" -> Sent(@, Frame("pong", Nil), ok, "loop")]
    /\ set_call' = NoSetCall
    /\ UNCHANGED <<module_status, module_message, bus_log, event_queue, ps, next_request>>
    /\ UNCHANGED <<wm_vars, reg_vars, store_vars, loop_vars, proc_vars, out_vars, sweep_vars,
                 geo_vars, cli_vars, lock_vars>>

\* select: the client closes the socket or sends a frame that is not text
ClientCloses(s) ==
    /\ sessions[s].pc = "loop"
    /\ sessions' = [sessions EXCEPT ![s].pc = "closed"]
    /\ set_call' = NoSetCall
    /\ UNCHANGED <<module_status, module_message, bus_log, event_queue, ps, next_request>>
    /\ UNCHANGED <<wm_vars, reg_vars, store_vars, loop_vars, proc_vars, out_vars, sweep_vars,
                 geo_vars, cli_vars, lock_vars>>

\* the terminal client: call <identifier>
TerminalCall(identifier) ==
    /\ next_request <= MaxRequests
    /\ Len(event_queue) < MaxQueue
    /\ event_queue' = Append(event_queue, Event("CliCommand", 0, next_request, identifier))
    /\ next_request' = next_request + 1
    /\ set_call' = NoSetCall
    /\ UNCHANGED <<module_status, module_message, bus_log, sessions, ps>>
    /\ UNCHANGED <<wm_vars, reg_vars, store_vars, loop_vars, proc_vars, out_vars, sweep_vars,
                 geo_vars, cli_vars, lock_vars>>

\* handle_event, Event::FetchSystemInfo
HandleFetchSystemInfo ==
    /\ ps.pc = "recv"
    /\ event_queue # <<>>
    /\ Head(event_queue).kind = "FetchSystemInfo"
    /\ event_queue' = Tail(event_queue)
    /\ sessions' = Reply(sessions, Head(event_queue),
                         [info |-> system_info(plugin_instances),
                          status |-> module_status, message |-> module_message])
    /\ set_call' = NoSetCall
    /\ UNCHANGED <<module_status, module_message, bus_log, ps, next_request>>
    /\ UNCHANGED <<wm_vars, reg_vars, store_vars, loop_vars, proc_vars, out_vars, sweep_vars,
                 geo_vars, cli_vars, lock_vars>>

\* handle_event, Event::ClientCommand and Event::CliCommand: call_action finds
\* the action and calls its callback, or the error is the answer
HandleCallAction ==
    /\ ps.pc = "recv"
    /\ event_queue # <<>>
    /\ Head(event_queue).kind \in {"ClientCommand", "CliCommand"}
    /\ event_queue' = Tail(event_queue)
    /\ LET event == Head(event_queue)
           resolved == resolve_action(plugin_instances, event.identifier)
       IN IF resolved.ok
          THEN /\ ps' = [pc |-> "callback", event |-> event, key |-> resolved.key]
               /\ UNCHANGED sessions
          ELSE /\ sessions' = Reply(sessions, event,
                                    [ok |-> FALSE, error |-> resolved.error])
               /\ UNCHANGED ps
    /\ set_call' = NoSetCall
    /\ UNCHANGED <<module_status, module_message, bus_log, next_request>>
    /\ UNCHANGED <<wm_vars, reg_vars, store_vars, loop_vars, proc_vars, out_vars, sweep_vars,
                 geo_vars, cli_vars, lock_vars>>

\* the callback calls module:set_status(status)
SetStatus(h, status) ==
    /\ ps.pc = "callback"
    /\ SetCall("set_status", h, status) \in ScriptCalls
    /\ Len(bus_log) < MaxNotifications
    /\ module_status' = [module_status EXCEPT ![h] = status]
    /\ bus_log' = send(bus_log, Notification("ModuleStatusUpdate", module_identifier(h),
                                             status, ps.event.request_id))
    /\ set_call' = SetCall("set_status", h, status)
    /\ UNCHANGED <<module_message, sessions, event_queue, ps, next_request>>
    /\ UNCHANGED <<wm_vars, reg_vars, store_vars, loop_vars, proc_vars, out_vars, sweep_vars,
                 geo_vars, cli_vars, lock_vars>>

\* the callback calls module:set_message(message)
SetMessage(h, message) ==
    /\ ps.pc = "callback"
    /\ SetCall("set_message", h, message) \in ScriptCalls
    /\ Len(bus_log) < MaxNotifications
    /\ module_message' = [module_message EXCEPT ![h] = message]
    /\ bus_log' = send(bus_log, Notification("ModuleMessageUpdate", module_identifier(h),
                                             message, ps.event.request_id))
    /\ set_call' = SetCall("set_message", h, message)
    /\ UNCHANGED <<module_status, sessions, event_queue, ps, next_request>>
    /\ UNCHANGED <<wm_vars, reg_vars, store_vars, loop_vars, proc_vars, out_vars, sweep_vars,
                 geo_vars, cli_vars, lock_vars>>

\* the callback calls module:set_active_actions(actions)
SetActiveActionsNotify(h, actions) ==
    /\ ps.pc = "callback"
    /\ SetCall("set_active_actions", h, actions) \in ScriptCalls
    /\ Len(bus_log) < MaxNotifications
    /\ LET module == set_active_actions(plugin_instances[h[1]].modules[h[2]], actions)
       IN /\ plugin_instances' = [plugin_instances EXCEPT ![h[1]].modules[h[2]] = module]
          /\ bus_log' = send(bus_log,
                             Notification("ModuleActiveActionsUpdate", module_identifier(h),
                                          module.active_actions, ps.event.request_id))
    /\ set_call' = SetCall("set_active_actions", h, actions)
    /\ UNCHANGED <<module_status, module_message, sessions, event_queue, ps, next_request>>
    /\ UNCHANGED <<next_key, reg_call>>
    /\ UNCHANGED <<wm_vars, store_vars, loop_vars, proc_vars, out_vars, sweep_vars, geo_vars, cli_vars, lock_vars>>

\* the callback returns or raises an error; call_action returns and, for a
\* command of a client, the result goes into the reply channel
ActionReturns(ok) ==
    /\ ps.pc = "callback"
    /\ ps' = [pc |-> "recv", event |-> NoEvent, key |-> None]
    /\ sessions' = Reply(sessions, ps.event,
                         [ok |-> ok, error |-> IF ok THEN "" ELSE "action callback failed"])
    /\ set_call' = SetCall("return", <<0, 0>>, Some(IF ok THEN "ok" ELSE "error"))
    /\ UNCHANGED <<module_status, module_message, bus_log, event_queue, next_request>>
    /\ UNCHANGED <<wm_vars, reg_vars, store_vars, loop_vars, proc_vars, out_vars, sweep_vars,
                 geo_vars, cli_vars, lock_vars>>

SrvInit ==
    /\ module_status = [h \in LoadedModules |-> Nil]
    /\ module_message = [h \in LoadedModules |-> Nil]
    /\ bus_log = <<>>
    /\ sessions = [s \in Sessions |-> NoSession]
    /\ event_queue = <<>>
    /\ ps = [pc |-> "recv", event |-> NoEvent, key |-> None]
    /\ next_request = 1
    /\ set_call = NoSetCall

SrvNext ==
    \/ \E s \in Sessions : ClientConnects(s)
    \/ \E s \in Sessions : AuthTick(s)
    \/ \E s \in Sessions : AuthTimeout(s)
    \/ \E s \in Sessions, msg \in FirstFrames : ReceiveFirstMessage(s, msg)
    \/ \E s \in Sessions : SendSystemInfo(s)
    \/ \E s \in Sessions : Heartbeat(s)
    \/ \E s \in Sessions : ReceiveNotification(s)
    \/ \E s \in Sessions, identifier \in RequestIdentifiers : ReceiveRequest(s, identifier)
    \/ \E s \in Sessions : SendResponse(s)
    \/ \E s \in Sessions, kind \in {"garbage", "ping"} : ReceiveOther(s, kind)
    \/ \E s \in Sessions : ClientCloses(s)
    \/ \E identifier \in TerminalIdentifiers : TerminalCall(identifier)
    \/ HandleFetchSystemInfo
    \/ HandleCallAction
    \/ \E h \in LoadedModules, status \in StatusValues : SetStatus(h, status)
    \/ \E h \in LoadedModules, message \in MessageValues : SetMessage(h, message)
    \/ \E h \in LoadedModules, actions \in ActionLists : SetActiveActionsNotify(h, actions)
    \/ \E ok \in BOOLEAN : ActionReturns(ok)

(***************************************************************************)
(* Child processes, their supervisor tasks and the shutdown                *)
(***************************************************************************)
Streams == {"stdout", "stderr"}

\* the process ids the operating system hands out
Pids == {7, 8}

ProcessHandles == 1..MaxProcesses

\* a spawned child, its process handle and its supervisor task
\*   child:       "running", "zombie" (ended, not waited for) or "reaped"
\*   kill_sender: the handle still holds the sender of the kill channel
\*   kill_rx:     "empty", "sent" or "closed" (the sender was dropped unused):
\*                what the receiver of the kill channel resolves to
\*   handle:      "held" by the script runtime or "dropped" (collected)
\*   supervisor:  "select", "killed" (kill branch taken: signal sent, waits for
\*                the child), "reaped" (select is over) or "done"
\*   signals:     the kill signals the supervisor has sent
Process(pid) ==
    [pid |-> pid, child |-> "running", kill_sender |-> TRUE, kill_rx |-> "empty",
     handle |-> "held", supervisor |-> "select", signals |-> 0]

\* the child of the handle has not been waited for: its pid is in use
Unreaped(process) == process.child # "reaped"

PidInUse(pid) == \E h \in DOMAIN processes : processes[h].pid = pid /\ Unreaped(processes[h])

ProcCall(op, h, sent) == [op |-> op, handle |-> h, sent |-> sent]

NoProcCall == ProcCall("none", 0, FALSE)

\* the plugin instances of the configuration: the second has no on_cleanup
OnCleanup == <<TRUE, FALSE, TRUE>>

\* the program runs: main has not left
Alive == main_pc \in {"running", "waiting"}

\* a script runs: the plugins are loaded, an event is handled, or a cleanup
\* callback runs
ProcessApiCallable ==
    /\ Alive
    /\ \/ loop_pc \in {"load", "event"}
       \/ loop_pc = "cleanup" /\ cleanup.running # 0

\* the two pipes of a child and their reader tasks
\*   on_output: the child was spawned with an on_output callback
\*   pipe:      the lines written and not yet read, per stream
\*   written:   the number of lines the child has written, per stream; the
\*              k-th line of a stream is modelled by the number k
\*   reader:    "reading" or "ended", per stream
Output(on_output) ==
    [on_output |-> on_output,
     pipe |-> [s \in Streams |-> <<>>],
     written |-> [s \in Streams |-> 0],
     reader |-> [s \in Streams |-> "reading"]]

\* spawn_process: the child is started, the two reader tasks spawned, the PID
\* file created (an existing file of that name is truncated) and the
\* supervisor task spawned
SpawnProcess(pid, on_output) ==
    /\ ProcessApiCallable
    /\ Len(processes) < MaxProcesses
    /\ ~PidInUse(pid)
    /\ processes' = Append(processes, Process(pid))
    /\ outputs' = Append(outputs, Output(on_output))
    /\ pid_files' = [pid_files EXCEPT ![pid] = Len(processes) + 1]
    /\ proc_call' = ProcCall("spawn_process", Len(processes) + 1, FALSE)
    /\ UNCHANGED <<cleanup, main_pc, shutdown_receiver, loop_pc, output_queue, delivered>>
    /\ UNCHANGED <<run_later_tasks, next_task, event_loop_counter, executed, loop_errors>>
    /\ UNCHANGED <<wm_vars, reg_vars, store_vars, srv_vars, sweep_vars, geo_vars, cli_vars, lock_vars>>

\* variant: kill() sends a request every time it is called
kill_again(process) ==
    [process |-> [process EXCEPT !.kill_sender = FALSE,
                                 !.kill_rx = IF process.supervisor = "select"
                                             THEN "sent" ELSE @],
     sent |-> TRUE]

\* ProcessHandle::kill: the sender is taken out of the handle and the request
\* sent; it is lost if the supervisor has left its select. Without a sender
\* the call only logs.
kill(process) ==
    IF process.kill_sender
    THEN [process |-> [process EXCEPT !.kill_sender = FALSE,
                                      !.kill_rx = IF process.supervisor = "select"
                                                  THEN "sent" ELSE @],
          sent |-> TRUE]
    ELSE [process |-> process, sent |-> FALSE]

\* a script calls kill() on a process handle
KillProcess(h) ==
    /\ ProcessApiCallable
    /\ h \in DOMAIN processes
    /\ processes[h].handle = "held"
    /\ processes' = [processes EXCEPT ![h] = kill(@).process]
    /\ proc_call' = ProcCall("kill", h, kill(processes[h]).sent)
    /\ UNCHANGED <<pid_files, cleanup, main_pc, shutdown_receiver, loop_pc>>
    /\ UNCHANGED <<run_later_tasks, next_task, event_loop_counter, executed, loop_errors>>
    /\ UNCHANGED <<wm_vars, reg_vars, store_vars, srv_vars, out_vars, sweep_vars, geo_vars, cli_vars, lock_vars>>

\* the ProcessHandle is dropped: a sender it still holds is dropped with it,
\* and the receiver of the kill channel resolves to an error
drop_handle(process) ==
    [process EXCEPT !.handle = "dropped",
                    !.kill_rx = IF process.kill_sender /\ process.supervisor = "select"
                                THEN "closed" ELSE @]

\* the script runtime collects a process handle no script refers to any more
DropHandle(h) ==
    /\ ProcessApiCallable
    /\ h \in DOMAIN processes
    /\ processes[h].handle = "held"
    /\ processes' = [processes EXCEPT ![h] = drop_handle(@)]
    /\ proc_call' = NoProcCall
    /\ UNCHANGED <<pid_files, cleanup, main_pc, shutdown_receiver, loop_pc>>
    /\ UNCHANGED <<run_later_tasks, next_task, event_loop_counter, executed, loop_errors>>
    /\ UNCHANGED <<wm_vars, reg_vars, store_vars, srv_vars, out_vars, sweep_vars, geo_vars, cli_vars, lock_vars>>

\* the child ends on its own
ChildExits(h) ==
    /\ Alive
    /\ h \in DOMAIN processes
    /\ processes[h].child = "running"
    /\ processes' = [processes EXCEPT ![h].child = "zombie"]
    /\ proc_call' = NoProcCall
    /\ UNCHANGED <<pid_files, cleanup, main_pc, shutdown_receiver, loop_pc>>
    /\ UNCHANGED <<run_later_tasks, next_task, event_loop_counter, executed, loop_errors>>
    /\ UNCHANGED <<wm_vars, reg_vars, store_vars, srv_vars, out_vars, sweep_vars, geo_vars, cli_vars, lock_vars>>

\* the branch `_ = kill_rx` of select is ready: the pattern matches the value
\* sent by kill() and the error of a closed channel alike
kill_rx_ready(process) == process.kill_rx # "empty"

\* select, kill branch: child.kill() sends SIGKILL to the child
SupervisorKills(h) ==
    /\ Alive
    /\ h \in DOMAIN processes
    /\ processes[h].supervisor = "select"
    /\ kill_rx_ready(processes[h])
    /\ processes' = [processes EXCEPT ![h].supervisor = "killed", ![h].child = "zombie",
                                      ![h].kill_rx = "empty", ![h].signals = @ + 1]
    /\ proc_call' = NoProcCall
    /\ UNCHANGED <<pid_files, cleanup, main_pc, shutdown_receiver, loop_pc>>
    /\ UNCHANGED <<run_later_tasks, next_task, event_loop_counter, executed, loop_errors>>
    /\ UNCHANGED <<wm_vars, reg_vars, store_vars, srv_vars, out_vars, sweep_vars, geo_vars, cli_vars, lock_vars>>

\* child.wait() returns: in the kill branch after the signal, in the other
\* branch of select when the child has ended
SupervisorReaps(h) ==
    /\ Alive
    /\ h \in DOMAIN processes
    /\ processes[h].supervisor \in {"select", "killed"}
    /\ processes[h].child = "zombie"
    /\ processes' = [processes EXCEPT ![h].supervisor = "reaped", ![h].child = "reaped"]
    /\ proc_call' = NoProcCall
    /\ UNCHANGED <<pid_files, cleanup, main_pc, shutdown_receiver, loop_pc>>
    /\ UNCHANGED <<run_later_tasks, next_task, event_loop_counter, executed, loop_errors>>
    /\ UNCHANGED <<wm_vars, reg_vars, store_vars, srv_vars, out_vars, sweep_vars, geo_vars, cli_vars, lock_vars>>

\* variant: the supervisor ends without removing the PID file
remove_file_skipped(files, pid) == files

\* fs::remove_file(<pid>.pid)
remove_file(files, pid) == [files EXCEPT ![pid] = 0]

\* the supervisor removes the PID file of its pid and drops its sender of the
\* plugin shutdown-wait channel
SupervisorRemoves(h) ==
    /\ Alive
    /\ h \in DOMAIN processes
    /\ processes[h].supervisor = "reaped"
    /\ pid_files' = remove_file(pid_files, processes[h].pid)
    /\ processes' = [processes EXCEPT ![h].supervisor = "done"]
    /\ proc_call' = NoProcCall
    /\ UNCHANGED <<cleanup, main_pc, shutdown_receiver, loop_pc>>
    /\ UNCHANGED <<run_later_tasks, next_task, event_loop_counter, executed, loop_errors>>
    /\ UNCHANGED <<wm_vars, reg_vars, store_vars, srv_vars, out_vars, sweep_vars, geo_vars, cli_vars, lock_vars>>

\* PluginSystem::init has returned and the configuration is sent to main,
\* which goes on to its select with the console interrupt
ProcConfigSent ==
    /\ Alive
    /\ loop_pc = "load"
    /\ loop_pc' = "loaded"
    /\ proc_call' = NoProcCall
    /\ UNCHANGED <<processes, pid_files, cleanup, main_pc, shutdown_receiver>>
    /\ UNCHANGED <<run_later_tasks, next_task, event_loop_counter, executed, loop_errors>>
    /\ UNCHANGED <<wm_vars, reg_vars, store_vars, srv_vars, out_vars, sweep_vars, geo_vars, cli_vars, lock_vars>>

\* broadcast::Sender::subscribe: the new receiver sees what is sent from now on
subscribe(receiver) == "empty"

\* event_loop starts: it subscribes to the shutdown channel
ProcStartEventLoop ==
    /\ Alive
    /\ loop_pc = "loaded"
    /\ loop_pc' = "drain"
    /\ shutdown_receiver' = subscribe(shutdown_receiver)
    /\ proc_call' = NoProcCall
    /\ UNCHANGED <<processes, pid_files, cleanup, main_pc>>
    /\ UNCHANGED <<run_later_tasks, next_task, event_loop_counter, executed, loop_errors>>
    /\ UNCHANGED <<wm_vars, reg_vars, store_vars, srv_vars, out_vars, sweep_vars, geo_vars, cli_vars, lock_vars>>

\* the loop waits and receives an event; its handler runs a script
ProcReceiveEvent ==
    /\ Alive
    /\ loop_pc = "drain"
    /\ event_loop_counter < MaxEvents
    /\ loop_pc' = "event"
    /\ proc_call' = NoProcCall
    /\ UNCHANGED <<processes, pid_files, cleanup, main_pc, shutdown_receiver>>
    /\ UNCHANGED <<run_later_tasks, next_task, event_loop_counter, executed, loop_errors>>
    /\ UNCHANGED <<wm_vars, reg_vars, store_vars, srv_vars, out_vars, sweep_vars, geo_vars, cli_vars, lock_vars>>

\* handle_event returns (an error of a callback is not told apart here)
ProcEventHandled ==
    /\ Alive
    /\ loop_pc = "event"
    /\ loop_pc' = "drain"
    /\ event_loop_counter' = IF event_loop_counter + 1 > ExpireInterval
                             THEN 0 ELSE event_loop_counter + 1
    /\ proc_call' = NoProcCall
    /\ UNCHANGED <<processes, pid_files, cleanup, main_pc, shutdown_receiver>>
    /\ UNCHANGED <<run_later_tasks, next_task, executed, loop_errors>>
    /\ UNCHANGED <<wm_vars, reg_vars, store_vars, srv_vars, out_vars, sweep_vars, geo_vars, cli_vars, lock_vars>>

\* shutdown_sender.send(()): the value reaches the receivers subscribed at
\* this moment; without one the send fails and the result is ignored
send_shutdown(receiver) == IF receiver = "none" THEN "none" ELSE "signal"

\* main: the first console interrupt sends the shutdown signal and main waits
\* for the shutdown-wait channel to close
FirstInterrupt ==
    /\ main_pc = "running"
    /\ loop_pc # "load"
    /\ main_pc' = "waiting"
    /\ shutdown_receiver' = send_shutdown(shutdown_receiver)
    /\ proc_call' = NoProcCall
    /\ UNCHANGED <<processes, pid_files, cleanup, loop_pc>>
    /\ UNCHANGED <<run_later_tasks, next_task, event_loop_counter, executed, loop_errors>>
    /\ UNCHANGED <<wm_vars, reg_vars, store_vars, srv_vars, out_vars, sweep_vars, geo_vars, cli_vars, lock_vars>>

\* main: a second console interrupt while it waits: the process exits
SecondInterrupt ==
    /\ main_pc = "waiting"
    /\ main_pc' = "forced"
    /\ proc_call' = NoProcCall
    /\ UNCHANGED <<processes, pid_files, cleanup, loop_pc, shutdown_receiver>>
    /\ UNCHANGED <<run_later_tasks, next_task, event_loop_counter, executed, loop_errors>>
    /\ UNCHANGED <<wm_vars, reg_vars, store_vars, srv_vars, out_vars, sweep_vars, geo_vars, cli_vars, lock_vars>>

\* the loop waits and receives the shutdown signal: it leaves the loop
ProcReceiveShutdown ==
    /\ main_pc = "waiting"
    /\ loop_pc = "drain"
    /\ shutdown_receiver = "signal"
    /\ loop_pc' = "cleanup"
    /\ shutdown_receiver' = "empty"
    /\ proc_call' = NoProcCall
    /\ UNCHANGED <<processes, pid_files, cleanup, main_pc>>
    /\ UNCHANGED <<run_later_tasks, next_task, event_loop_counter, executed, loop_errors>>
    /\ UNCHANGED <<wm_vars, reg_vars, store_vars, srv_vars, out_vars, sweep_vars, geo_vars, cli_vars, lock_vars>>

\* for_each over the plugin instances: the next one; its on_cleanup callback
\* is called if it has one
CleanupNext ==
    /\ Alive
    /\ loop_pc = "cleanup"
    /\ cleanup.running = 0
    /\ cleanup.next <= Len(OnCleanup)
    /\ cleanup' = IF OnCleanup[cleanup.next]
                  THEN [cleanup EXCEPT !.running = cleanup.next,
                                       !.calls[cleanup.next] = @ + 1]
                  ELSE [cleanup EXCEPT !.next = @ + 1]
    /\ proc_call' = NoProcCall
    /\ UNCHANGED <<processes, pid_files, main_pc, shutdown_receiver, loop_pc>>
    /\ UNCHANGED <<run_later_tasks, next_task, event_loop_counter, executed, loop_errors>>
    /\ UNCHANGED <<wm_vars, reg_vars, store_vars, srv_vars, out_vars, sweep_vars, geo_vars, cli_vars, lock_vars>>

\* the cleanup callback returns or raises an error, which is logged
CleanupReturns(ok) ==
    /\ Alive
    /\ loop_pc = "cleanup"
    /\ cleanup.running # 0
    /\ cleanup' = [cleanup EXCEPT !.running = 0, !.next = @ + 1,
                                  !.failed = IF ok THEN @ ELSE @ \cup {cleanup.running}]
    /\ proc_call' = NoProcCall
    /\ UNCHANGED <<processes, pid_files, main_pc, shutdown_receiver, loop_pc>>
    /\ UNCHANGED <<run_later_tasks, next_task, event_loop_counter, executed, loop_errors>>
    /\ UNCHANGED <<wm_vars, reg_vars, store_vars, srv_vars, out_vars, sweep_vars, geo_vars, cli_vars, lock_vars>>

\* the callbacks are through: the plugin thread drops its sender of the plugin
\* shutdown-wait channel and waits for the channel to close
CleanupDone ==
    /\ Alive
    /\ loop_pc = "cleanup"
    /\ cleanup.running = 0
    /\ cleanup.next > Len(OnCleanup)
    /\ loop_pc' = "wait"
    /\ proc_call' = NoProcCall
    /\ UNCHANGED <<processes, pid_files, cleanup, main_pc, shutdown_receiver>>
    /\ UNCHANGED <<run_later_tasks, next_task, event_loop_counter, executed, loop_errors>>
    /\ UNCHANGED <<wm_vars, reg_vars, store_vars, srv_vars, out_vars, sweep_vars, geo_vars, cli_vars, lock_vars>>

\* variant: the plugin thread does not wait for the supervisors
plugin_shutdown_wait_closed_unchecked(procs) == TRUE

\* the plugin shutdown-wait channel is closed: every supervisor has dropped
\* its sender
plugin_shutdown_wait_closed(procs) ==
    \A h \in DOMAIN procs : procs[h].supervisor = "done"

\* recv on the closed channel returns; the plugin thread drops the sender of
\* the shutdown-wait channel of main and event_loop returns
WaitReturns ==
    /\ Alive
    /\ loop_pc = "wait"
    /\ plugin_shutdown_wait_closed(processes)
    /\ loop_pc' = "done"
    /\ proc_call' = NoProcCall
    /\ UNCHANGED <<processes, pid_files, cleanup, main_pc, shutdown_receiver>>
    /\ UNCHANGED <<run_later_tasks, next_task, event_loop_counter, executed, loop_errors>>
    /\ UNCHANGED <<wm_vars, reg_vars, store_vars, srv_vars, out_vars, sweep_vars, geo_vars, cli_vars, lock_vars>>

\* main: the shutdown-wait channel is closed and the process exits
MainExits ==
    /\ main_pc = "waiting"
    /\ loop_pc = "done"
    /\ main_pc' = "exited"
    /\ proc_call' = NoProcCall
    /\ UNCHANGED <<processes, pid_files, cleanup, loop_pc, shutdown_receiver>>
    /\ UNCHANGED <<run_later_tasks, next_task, event_loop_counter, executed, loop_errors>>
    /\ UNCHANGED <<wm_vars, reg_vars, store_vars, srv_vars, out_vars, sweep_vars, geo_vars, cli_vars, lock_vars>>

\* Event::ProcessOutput
ProcessOutput(h, kind, line) == [handle |-> h, kind |-> kind, line |-> line]

RECURSIVE LinesWritten(_)
\* the number of lines the children have written
LinesWritten(outs) ==
    IF outs = <<>> THEN 0
    ELSE Head(outs).written["stdout"] + Head(outs).written["stderr"] + LinesWritten(Tail(outs))

\* the child writes its next line to one of its streams
ChildWrites(h, kind) ==
    /\ Alive
    /\ h \in DOMAIN processes
    /\ processes[h].child = "running"
    /\ LinesWritten(outputs) < MaxLines
    /\ outputs' = [outputs EXCEPT ![h].written[kind] = @ + 1,
                                  ![h].pipe[kind] = Append(@, outputs[h].written[kind] + 1)]
    /\ proc_call' = NoProcCall
    /\ UNCHANGED <<processes, pid_files, cleanup, main_pc, shutdown_receiver, loop_pc, output_queue, delivered>>
    /\ UNCHANGED <<run_later_tasks, next_task, event_loop_counter, executed, loop_errors>>
    /\ UNCHANGED <<wm_vars, reg_vars, store_vars, srv_vars, sweep_vars, geo_vars, cli_vars, lock_vars>>

\* read_lines, Ok(Some(line)): the line is logged; with a callback it is sent
\* as an event, which waits for room in the event channel; the reader ends
\* when the receiver of the channel is gone
ForwardLine(h, kind) ==
    /\ Alive
    /\ h \in DOMAIN processes
    /\ outputs[h].reader[kind] = "reading"
    /\ outputs[h].pipe[kind] # <<>>
    /\ IF ~outputs[h].on_output
       THEN /\ outputs' = [outputs EXCEPT ![h].pipe[kind] = Tail(@)]
            /\ UNCHANGED output_queue
       ELSE IF loop_pc = "done"
       THEN /\ outputs' = [outputs EXCEPT ![h].pipe[kind] = Tail(@),
                                          ![h].reader[kind] = "ended"]
            /\ UNCHANGED output_queue
       ELSE /\ Len(output_queue) < MaxQueue
            /\ outputs' = [outputs EXCEPT ![h].pipe[kind] = Tail(@)]
            /\ output_queue' = Append(output_queue,
                                      ProcessOutput(h, kind, Head(outputs[h].pipe[kind])))
    /\ proc_call' = NoProcCall
    /\ UNCHANGED <<processes, pid_files, cleanup, main_pc, shutdown_receiver, loop_pc, delivered>>
    /\ UNCHANGED <<run_later_tasks, next_task, event_loop_counter, executed, loop_errors>>
    /\ UNCHANGED <<wm_vars, reg_vars, store_vars, srv_vars, sweep_vars, geo_vars, cli_vars, lock_vars>>

\* read_lines, Ok(None): the child has ended and the pipe is read out
StreamClosed(h, kind) ==
    /\ Alive
    /\ h \in DOMAIN processes
    /\ outputs[h].reader[kind] = "reading"
    /\ outputs[h].pipe[kind] = <<>>
    /\ processes[h].child # "running"
    /\ outputs' = [outputs EXCEPT ![h].reader[kind] = "ended"]
    /\ proc_call' = NoProcCall
    /\ UNCHANGED <<processes, pid_files, cleanup, main_pc, shutdown_receiver, loop_pc, output_queue, delivered>>
    /\ UNCHANGED <<run_later_tasks, next_task, event_loop_counter, executed, loop_errors>>
    /\ UNCHANGED <<wm_vars, reg_vars, store_vars, srv_vars, sweep_vars, geo_vars, cli_vars, lock_vars>>

\* variant: the received event stays in the channel
recv_event_kept(queue) == [event |-> Head(queue), queue |-> queue]

\* event_receiver.recv(): the oldest event of the channel
recv_event(queue) == [event |-> Head(queue), queue |-> Tail(queue)]

\* the loop waits and receives a ProcessOutput event: handle_event calls the
\* on_output callback with the line
HandleProcessOutput ==
    /\ Alive
    /\ loop_pc = "drain"
    /\ output_queue # <<>>
    /\ output_queue' = recv_event(output_queue).queue
    /\ delivered' = Append(delivered, recv_event(output_queue).event)
    /\ loop_pc' = "event"
    /\ proc_call' = NoProcCall
    /\ UNCHANGED <<processes, pid_files, cleanup, main_pc, shutdown_receiver, outputs>>
    /\ UNCHANGED <<run_later_tasks, next_task, event_loop_counter, executed, loop_errors>>
    /\ UNCHANGED <<wm_vars, reg_vars, store_vars, srv_vars, sweep_vars, geo_vars, cli_vars, lock_vars>>

ProcInit ==
    /\ processes = <<>>
    /\ pid_files = [pid \in Pids |-> 0]
    /\ cleanup = [next |-> 1, running |-> 0, calls |-> [i \in DOMAIN OnCleanup |-> 0],
                  failed |-> {}]
    /\ main_pc = "running"
    /\ shutdown_receiver = "none"
    /\ proc_call = NoProcCall
    /\ outputs = <<>>
    /\ output_queue = <<>>
    /\ delivered = <<>>

OutNext ==
    \/ \E pid \in Pids, on_output \in BOOLEAN : SpawnProcess(pid, on_output)
    \/ \E h \in ProcessHandles, kind \in Streams : ChildWrites(h, kind)
    \/ \E h \in ProcessHandles, kind \in Streams : ForwardLine(h, kind)
    \/ \E h \in ProcessHandles, kind \in Streams : StreamClosed(h, kind)
    \/ HandleProcessOutput
    \/ \E h \in ProcessHandles : ChildExits(h)
    \/ ProcConfigSent
    \/ ProcStartEventLoop
    \/ ProcEventHandled
    \/ FirstInterrupt
    \/ ProcReceiveShutdown

ProcNext ==
    \/ \E pid \in Pids : SpawnProcess(pid, FALSE)
    \/ \E h \in ProcessHandles : KillProcess(h)
    \/ \E h \in ProcessHandles : ChildExits(h)
    \/ \E h \in ProcessHandles : SupervisorKills(h)
    \/ \E h \in ProcessHandles : SupervisorReaps(h)
    \/ \E h \in ProcessHandles : SupervisorRemoves(h)
    \/ ProcConfigSent
    \/ ProcStartEventLoop
    \/ FirstInterrupt
    \/ SecondInterrupt
    \/ ProcReceiveShutdown
    \/ CleanupNext
    \/ \E ok \in BOOLEAN : CleanupReturns(ok)
    \/ CleanupDone
    \/ WaitReturns
    \/ MainExits

\* the steps of a child from its spawn to the end of its supervisor, with the
\* scripts of the loading phase and the console interrupts
KillNext ==
    \/ \E pid \in Pids : SpawnProcess(pid, FALSE)
    \/ \E h \in ProcessHandles : KillProcess(h)
    \/ \E h \in ProcessHandles : ChildExits(h)
    \/ \E h \in ProcessHandles : SupervisorKills(h)
    \/ \E h \in ProcessHandles : SupervisorReaps(h)
    \/ \E h \in ProcessHandles : SupervisorRemoves(h)
    \/ ProcConfigSent
    \/ ProcStartEventLoop
    \/ FirstInterrupt
    \/ SecondInterrupt

\* the steps of KillNext, and the script runtime collecting process handles
DropNext ==
    \/ KillNext
    \/ \E h \in ProcessHandles : DropHandle(h)

ShutdownNext ==
    \/ ProcNext
    \/ ProcReceiveEvent
    \/ ProcEventHandled

(***************************************************************************)
(* The sweep of the PID directory at startup                               *)
(***************************************************************************)
PidSuffix == <<".", "p", "i", "d">>

Digits == {"0", "1", "2", "3", "4", "5", "6", "7", "8", "9"}

DigitValue ==
    [c \in Digits |->
        CASE c = "0" -> 0 [] c = "1" -> 1 [] c = "2" -> 2 [] c = "3" -> 3 [] c = "4" -> 4
          [] c = "5" -> 5 [] c = "6" -> 6 [] c = "7" -> 7 [] c = "8" -> 8 [] c = "9" -> 9]

\* str.ends_with(suffix)
ends_with(text, suffix) ==
    /\ Len(text) >= Len(suffix)
    /\ SubSeq(text, Len(text) - Len(suffix) + 1, Len(text)) = suffix

RECURSIVE trim_end_matches(_, _)
\* str.trim_end_matches(suffix): the suffix is removed as often as it matches
trim_end_matches(text, suffix) ==
    IF ends_with(text, suffix)
    THEN trim_end_matches(SubSeq(text, 1, Len(text) - Len(suffix)), suffix)
    ELSE text

RECURSIVE parse_digits(_, _, _)
\* the digits are accumulated with checked arithmetic, towards the sign
parse_digits(text, acc, negative) ==
    IF text = <<>> THEN Some(acc)
    ELSE IF Head(text) \notin Digits THEN Nil
    ELSE LET d == DigitValue[Head(text)]
         IN  IF negative
             THEN IF -acc > (IF d = 0 THEN I32_MAX \div 10 ELSE (I32_MAX - d + 1) \div 10)
                  THEN Nil
                  ELSE parse_digits(Tail(text), acc * 10 - d, negative)
             ELSE IF acc > (I32_MAX - d) \div 10
                  THEN Nil
                  ELSE parse_digits(Tail(text), acc * 10 + d, negative)

\* str.parse::<i32>(): an optional sign and at least one digit, within the
\* range of i32
parse_i32(text) ==
    IF text = <<>> THEN Nil
    ELSE IF Head(text) \in {"+", "-"}
    THEN IF Len(text) = 1 THEN Nil
         ELSE parse_digits(Tail(text), 0, Head(text) = "-")
    ELSE parse_digits(text, 0, FALSE)

\* the names a PID directory of a previous instance may hold
FileNames ==
    { <<"7", ".", "p", "i", "d">>,
      <<"9", "9", "9", "9", "9", "9", "9", "9", ".", "p", "i", "d">>,
      <<"n", "o", "t", "a", "p", "i", "d", ".", "p", "i", "d">>,
      <<"0", ".", "p", "i", "d">>,
      <<"-", "5", ".", "p", "i", "d">>,
      <<"9", "9", "9", "9", "9", "9", "9", "9", "9", "9", ".", "p", "i", "d">>,
      <<"7", ".", "p", "i", "d", ".", "p", "i", "d">>,
      <<"7", ".", "t", "x", "t">> }

\* the pids that the names of FileNames parse to
OldPids == {7, 99999999}

\* a process of a previous instance: "dead", "alive" (ends on SIGINT) or
\* "stubborn" (ends on SIGKILL only)
OldProcessStates == {"dead", "alive", "stubborn"}

\* kill_old_process: SIGINT, the grace period, then SIGKILL
kill_old_process(process) ==
    IF process.state = "alive"
    THEN [state |-> "dead", signals |-> process.signals \o <<"SIGINT">>]
    ELSE [state |-> "dead", signals |-> process.signals \o <<"SIGINT", "SIGKILL">>]

\* the body of the loop of clean_old_processes for one directory entry
clean_item(name, dir, procs) ==
    IF ~ends_with(name, PidSuffix)
    THEN [dir |-> dir, procs |-> procs, log |-> "none"]
    ELSE LET parsed == parse_i32(trim_end_matches(name, PidSuffix))
         IN  IF parsed = Nil
             THEN [dir |-> dir, procs |-> procs, log |-> "error"]
             ELSE IF parsed[1] <= 0
             THEN [dir |-> dir, procs |-> procs, log |-> "warn"]
             ELSE LET pid == parsed[1]
                      alive == pid \in DOMAIN procs /\ procs[pid].state # "dead"
                  IN  [dir |-> dir \ {name},
                       procs |-> IF alive
                                 THEN [procs EXCEPT ![pid] = kill_old_process(@)]
                                 ELSE procs,
                       log |-> "debug"]

\* PluginSystem::init, read_dir: the entries of the PID directory; a missing
\* directory is created
ReadPidDirectory ==
    /\ sweep.pc = "boot"
    /\ IF pid_dir_exists
       THEN /\ sweep' = [pc |-> "sweeping", pending |-> pid_dir, log |-> "none"]
            /\ UNCHANGED pid_dir_exists
       ELSE /\ sweep' = [pc |-> "done", pending |-> {}, log |-> "none"]
            /\ pid_dir_exists' = TRUE
    /\ UNCHANGED <<pid_dir, old_processes>>
    /\ UNCHANGED <<wm_vars, reg_vars, store_vars, loop_vars, srv_vars, proc_vars, out_vars,
                 geo_vars, cli_vars, lock_vars>>

\* clean_old_processes: the next entry of the directory, in the order of the
\* file system
CleanOldProcess(name) ==
    /\ sweep.pc = "sweeping"
    /\ name \in sweep.pending
    /\ LET cleaned == clean_item(name, pid_dir, old_processes)
       IN  /\ pid_dir' = cleaned.dir
           /\ old_processes' = cleaned.procs
           /\ sweep' = [sweep EXCEPT !.pending = @ \ {name}, !.log = cleaned.log]
    /\ UNCHANGED pid_dir_exists
    /\ UNCHANGED <<wm_vars, reg_vars, store_vars, loop_vars, srv_vars, proc_vars, out_vars,
                 geo_vars, cli_vars, lock_vars>>

\* the directory is through
SweepReturns ==
    /\ sweep.pc = "sweeping"
    /\ sweep.pending = {}
    /\ sweep' = [sweep EXCEPT !.pc = "done", !.log = "none"]
    /\ UNCHANGED <<pid_dir, pid_dir_exists, old_processes>>
    /\ UNCHANGED <<wm_vars, reg_vars, store_vars, loop_vars, srv_vars, proc_vars, out_vars,
                 geo_vars, cli_vars, lock_vars>>

\* the plugin system is constructed: the sweep is over, the directory empty
SweepInit ==
    /\ pid_dir = {}
    /\ pid_dir_exists = TRUE
    /\ old_processes = [pid \in OldPids |-> [state |-> "dead", signals |-> <<>>]]
    /\ sweep = [pc |-> "done", pending |-> {}, log |-> "none"]

\* the program starts: what a previous instance has left
SweepBoot ==
    /\ pid_dir_exists \in BOOLEAN
    /\ pid_dir \in IF pid_dir_exists THEN SUBSET FileNames ELSE {{}}
    /\ old_processes \in [OldPids -> {[state |-> s, signals |-> <<>>] : s \in OldProcessStates}]
    /\ sweep = [pc |-> "boot", pending |-> {}, log |-> "none"]

SweepNext ==
    \/ ReadPidDirectory
    \/ \E name \in FileNames : CleanOldProcess(name)
    \/ SweepReturns

(***************************************************************************)
(* Geometry strings                                                        *)
(***************************************************************************)
\* a str is a sequence of bytes; a character outside ASCII takes two of them
EAcute == <<"C3", "A9">>

IsContinuation(byte) == byte = "A9"

\* str::is_char_boundary(index)
is_char_boundary(s, index) ==
    \/ index = 0
    \/ index = Len(s)
    \/ index < Len(s) /\ ~IsContinuation(s[index + 1])

RECURSIVE parse_u16_digits(_, _)
\* the digits are accumulated with checked arithmetic
parse_u16_digits(text, acc) ==
    IF text = <<>> THEN Some(acc)
    ELSE IF Head(text) \notin Digits THEN Nil
    ELSE IF acc * 10 + DigitValue[Head(text)] >= U16 THEN Nil
    ELSE parse_u16_digits(Tail(text), acc * 10 + DigitValue[Head(text)])

\* u16::from_str: an optional plus sign and at least one digit, within the
\* range of u16
u16_from_str(text) ==
    IF text = <<>> THEN Nil
    ELSE IF Head(text) \in {"+", "-"} /\ Len(text) = 1 THEN Nil
    ELSE IF Head(text) = "+" THEN parse_u16_digits(Tail(text), 0)
    ELSE parse_u16_digits(text, 0)

GeometryErr(message) == [kind |-> "err", message |-> message]

GeometryPanic == [kind |-> "panic"]

\* one step of from_str: the position of the first separator among the
\* characters is used as a byte index to cut the string, and the part before
\* it is parsed as u16
split_field(s, separators, expected, context) ==
    LET found == {i \in 1..Len(s) : s[i] \in separators}
        at == CHOOSE i \in found : \A j \in found : i <= j
        pos == Cardinality({j \in 1..(at - 1) : ~IsContinuation(s[j])})
        field == u16_from_str(SubSeq(s, 1, pos))
    IN IF found = {} THEN GeometryErr(expected)
       ELSE IF ~is_char_boundary(s, pos + 1) \/ ~is_char_boundary(s, pos)
       THEN GeometryPanic
       ELSE IF field = Nil THEN GeometryErr(context)
       ELSE [kind |-> "ok", rest |-> SubSeq(s, pos + 2, Len(s)), value |-> field[1],
             sign |-> s[at]]

\* variant: every pair of signs gives TopLeft
alignment_of_top_left(x_offset_sign, y_offset_sign) == "lt"

alignment_of(x_offset_sign, y_offset_sign) ==
    CASE x_offset_sign = "+" /\ y_offset_sign = "+" -> "lt"
      [] x_offset_sign = "-" /\ y_offset_sign = "+" -> "rt"
      [] x_offset_sign = "-" /\ y_offset_sign = "-" -> "rb"
      [] x_offset_sign = "+" /\ y_offset_sign = "-" -> "lb"

\* impl FromStr for AlignedGeometry
from_str(s) ==
    LET width == split_field(s, {"x"}, "expected 'x' after width", "width is not numeric")
        height == split_field(width.rest, {"+", "-"}, "expected '+' or '-' after height",
                              "height is not numeric")
        x_offset == split_field(height.rest, {"+", "-"},
                                "expected '+' or '-' after x offset",
                                "x offset is not numeric")
        y_offset == u16_from_str(x_offset.rest)
    IN IF width.kind # "ok" THEN width
       ELSE IF height.kind # "ok" THEN height
       ELSE IF x_offset.kind # "ok" THEN x_offset
       ELSE IF y_offset = Nil THEN GeometryErr("y offset is not numeric")
       ELSE [kind |-> "ok",
             geometry |-> AlignedGeometry(x_offset.value, y_offset[1], width.value,
                                          height.value,
                                          alignment_of(height.sign, x_offset.sign))]

\* decimal numbers: small, with a leading zero, the largest u16 and the one above
Decimals ==
    {<<"0">>, <<"4", "8", "0">>, <<"0", "7">>, <<"6", "5", "5", "3", "5">>,
     <<"6", "5", "5", "3", "6">>}

\* what else may stand where a number belongs: nothing, a number with a sign,
\* with a blank before or after it, a character outside ASCII
NoDecimals ==
    {<<>>, <<"+", "7">>, <<"-", "7">>, <<" ", "7">>, <<"7", " ">>, EAcute}

Fields == Decimals \cup NoDecimals

\* the strings handed to from_str: four fields, joined by "x" or nothing and by
\* a sign or nothing
GeometryParts ==
    Fields \X {<<"x">>, <<>>} \X Fields \X {<<"+">>, <<"-">>, <<>>}
           \X Fields \X {<<"+">>, <<"-">>, <<>>} \X Fields

Join(parts) ==
    parts[1] \o parts[2] \o parts[3] \o parts[4] \o parts[5] \o parts[6] \o parts[7]

NotParsed == [kind |-> "none"]

\* s.parse::<AlignedGeometry>()
ParseGeometry ==
    /\ geometry_result = NotParsed
    /\ geometry_result' = from_str(geometry_text)
    /\ UNCHANGED <<geometry_parts, geometry_text>>
    /\ UNCHANGED <<wm_vars, reg_vars, store_vars, loop_vars, srv_vars, proc_vars, out_vars,
                   sweep_vars, cli_vars, lock_vars>>

\* no geometry string is being parsed
GeoInit ==
    /\ geometry_parts = <<>>
    /\ geometry_text = <<>>
    /\ geometry_result = [kind |-> "idle"]

\* a geometry string is about to be parsed
GeoInput ==
    /\ geometry_parts \in GeometryParts
    /\ geometry_text = Join(geometry_parts)
    /\ geometry_result = NotParsed

GeoNext == ParseGeometry

(***************************************************************************)
(* CLI: action identifiers                                                 *)
(***************************************************************************)
SEPARATOR == <<":", ":">>

\* names a script can register a plugin instance, a module or an action
\* with: any string is accepted
CliNames ==
    {<<"a">>, <<"b">>, <<"a", ":">>, <<":", "b">>, <<"a", ":", ":", "b">>}

ActionIdentifiers == CliNames \X CliNames \X CliNames

\* the actions of a configuration: one or two of them
CliRegistries == {{a, b} : a \in ActionIdentifiers, b \in ActionIdentifiers}

\* format!("{}{}{}{}{}", plugin_instance.name, SEPARATOR, module.name,
\*         SEPARATOR, action.name)
action_identifier(id) == id[1] \o SEPARATOR \o id[2] \o SEPARATOR \o id[3]

starts_with(text, prefix) ==
    /\ Len(text) >= Len(prefix)
    /\ SubSeq(text, 1, Len(prefix)) = prefix

\* the text after the first n characters
Skip(text, n) == SubSeq(text, n + 1, Len(text))

\* str::split(SEPARATOR): the pieces between the matches of the separator,
\* found from the left and not overlapping
RECURSIVE split_from(_, _)
split_from(text, token) ==
    IF text = <<>> THEN <<token>>
    ELSE IF starts_with(text, SEPARATOR)
    THEN <<token>> \o split_from(Skip(text, Len(SEPARATOR)), <<>>)
    ELSE split_from(Tail(text), Append(token, Head(text)))

split(text) == split_from(text, <<>>)

Malformed == [kind |-> "malformed"]

NotFound == [kind |-> "not found"]

Called(id) == [kind |-> "called", action |-> id]

\* call_action: the plugin instance, the module and the action are looked up
\* by name and the callback of the action is called
call_action(actions, id) == IF id \in actions THEN Called(id) ELSE NotFound

\* call_action_string: the string is split at the separator and must give
\* three tokens
call_action_string(actions, action_string) ==
    LET tokens == split(action_string)
    IN  IF Len(tokens) # 3 THEN Malformed
        ELSE call_action(actions, <<tokens[1], tokens[2], tokens[3]>>)

CallPrefix == <<"c", "a", "l", "l", " ">>

NoReply == [kind |-> "none"]

\* no command has been typed
CliInit ==
    /\ cli_actions = {}
    /\ cli_printed = <<>>
    /\ cli_command = <<>>
    /\ cli_reply = NoReply

\* the plugins are loaded and have registered their actions
CliLoaded ==
    /\ cli_actions \in CliRegistries
    /\ cli_printed = <<>>
    /\ cli_command = <<>>
    /\ cli_reply = NoReply

\* handle_event, CliCommand "actions": the identifiers are listed; the user
\* takes the line of one action and types `call <identifier>`
ListActions(id) ==
    /\ id \in cli_actions
    /\ cli_reply.kind # "listed"
    /\ cli_printed' = id
    /\ cli_command' = CallPrefix \o action_identifier(id)
    /\ cli_reply' = [kind |-> "listed"]
    /\ UNCHANGED cli_actions
    /\ UNCHANGED <<wm_vars, reg_vars, store_vars, loop_vars, srv_vars, proc_vars, out_vars,
                   sweep_vars, geo_vars, lock_vars>>

\* handle_event, CliCommand: command.strip_prefix("call ") and
\* call_action_string
CallCommand ==
    /\ cli_reply.kind = "listed"
    /\ starts_with(cli_command, CallPrefix)
    /\ cli_reply' = call_action_string(cli_actions, Skip(cli_command, Len(CallPrefix)))
    /\ UNCHANGED <<cli_actions, cli_printed, cli_command>>
    /\ UNCHANGED <<wm_vars, reg_vars, store_vars, loop_vars, srv_vars, proc_vars, out_vars,
                   sweep_vars, geo_vars, lock_vars>>

CliNext ==
    \/ \E id \in ActionIdentifiers : ListActions(id)
    \/ CallCommand

(***************************************************************************)
(* The lock of the window manager and the window callbacks                 *)
(***************************************************************************)
\* the functions of the window API that take the write lock: the methods of
\* a window handle and neopult.api.reposition_windows
WindowApi == {"max", "min", "hide", "unclaim", "reposition_windows"}

\* the callbacks of virtual windows a method of the window manager calls:
\* map and unmap for the window of the call, set_geometry in
\* reposition_windows
WindowCallbacks(op) ==
    CASE op = "max" -> {"map", "set_geometry"}
      [] op = "min" -> {"map", "set_geometry"}
      [] op = "hide" -> {"unmap", "set_geometry"}
      [] op = "unclaim" -> {"set_geometry"}
      [] op = "reposition_windows" -> {"set_geometry"}

HostFrame(op, id) == [kind |-> "host", name |-> op, id |-> id]

CallbackFrame(callback, id) == [kind |-> "callback", name |-> callback, id |-> id]

Running == [state |-> "running", call |-> "none", id |-> 0]

\* the script code that runs: top-level code or the innermost callback
ScriptCodeRuns ==
    /\ script_thread = Running
    /\ IF api_stack = <<>> THEN TRUE
       ELSE api_stack[Len(api_stack)].kind = "callback"

\* RwLock::write() and read() on a lock the thread itself holds for writing:
\* the call blocks forever or panics
Relock(op, id) == {[state |-> st, call |-> op, id |-> id] : st \in {"blocked", "panicked"}}

\* WindowHandle::max, min, hide, unclaim: ctx.window_manager.write().unwrap(),
\* then the method of the window manager is called with the guard alive
WindowApiCall(op, id) ==
    /\ ScriptCodeRuns
    /\ IF wm_lock = "free"
       THEN /\ wm_lock' = "write"
            /\ api_stack' = Append(api_stack, HostFrame(op, id))
            /\ UNCHANGED script_thread
       ELSE /\ script_thread' \in Relock(op, id)
            /\ UNCHANGED <<wm_lock, api_stack>>
    /\ UNCHANGED <<wm_vars, reg_vars, store_vars, loop_vars, srv_vars, proc_vars, out_vars,
                   sweep_vars, geo_vars, cli_vars>>

\* WindowHandle::is_primary_window: the read lock is taken and released
IsPrimaryWindowCall(id) ==
    /\ ScriptCodeRuns
    /\ wm_lock # "free"
    /\ script_thread' \in Relock("is_primary_window", id)
    /\ UNCHANGED <<wm_lock, api_stack>>
    /\ UNCHANGED <<wm_vars, reg_vars, store_vars, loop_vars, srv_vars, proc_vars, out_vars,
                   sweep_vars, geo_vars, cli_vars>>

\* map_window, unmap_window, change_window_geometry on a virtual window: the
\* callback is called from inside the method of the window manager
InvokeCallback(callback, id) ==
    /\ script_thread = Running
    /\ api_stack # <<>>
    /\ api_stack[Len(api_stack)].kind = "host"
    /\ callback \in WindowCallbacks(api_stack[Len(api_stack)].name)
    /\ callback \in {"map", "unmap"} => id = api_stack[Len(api_stack)].id
    /\ api_stack' = Append(api_stack, CallbackFrame(callback, id))
    /\ UNCHANGED <<wm_lock, script_thread>>
    /\ UNCHANGED <<wm_vars, reg_vars, store_vars, loop_vars, srv_vars, proc_vars, out_vars,
                   sweep_vars, geo_vars, cli_vars>>

\* the callback returns or raises an error, which is logged
CallbackReturns ==
    /\ script_thread = Running
    /\ api_stack # <<>>
    /\ api_stack[Len(api_stack)].kind = "callback"
    /\ api_stack' = SubSeq(api_stack, 1, Len(api_stack) - 1)
    /\ UNCHANGED <<wm_lock, script_thread>>
    /\ UNCHANGED <<wm_vars, reg_vars, store_vars, loop_vars, srv_vars, proc_vars, out_vars,
                   sweep_vars, geo_vars, cli_vars>>

\* the method of the window handle returns: the guard is dropped
WindowApiReturns ==
    /\ script_thread = Running
    /\ api_stack # <<>>
    /\ api_stack[Len(api_stack)].kind = "host"
    /\ api_stack' = SubSeq(api_stack, 1, Len(api_stack) - 1)
    /\ wm_lock' = "free"
    /\ UNCHANGED script_thread
    /\ UNCHANGED <<wm_vars, reg_vars, store_vars, loop_vars, srv_vars, proc_vars, out_vars,
                   sweep_vars, geo_vars, cli_vars>>

LockInit ==
    /\ wm_lock = "free"
    /\ api_stack = <<>>
    /\ script_thread = Running

LockNext ==
    \/ \E op \in WindowApi, id \in Handles : WindowApiCall(op, id)
    \/ \E id \in Handles : IsPrimaryWindowCall(id)
    \/ \E callback \in {"set_geometry", "map", "unmap"}, id \in Handles :
           InvokeCallback(callback, id)
    \/ CallbackReturns
    \/ WindowApiReturns

(***************************************************************************)
(* Window manager: properties                                              *)
(***************************************************************************)
Screen == <<screen_width, screen_height>>

ModeSize(mode) == <<mode.width, mode.height>>

\* the window behind a managed id still exists (virtual windows always do)
WindowExists(id) == XRequestOk(WmState, id)

\* C1: after any sequence of max/min/hide/unclaim calls the primary, if any, is a
\* managed window whose mode is Max
C1_PrimaryIsManagedMax ==
    primary_window # None =>
        /\ primary_window \in DOMAIN managed_windows
        /\ managed_windows[primary_window].mode.kind = "Max"

\* C2: when max(B) succeeds while another window A is primary, A becomes Min if its
\* demotion action is Minimize and Hidden and unmapped if it is Hide
C2_MaxDemotesPrimary ==
    [][(/\ wm_call'.op = "max" /\ wm_call'.ok
        /\ primary_window # None /\ primary_window # wm_call'.id
        /\ primary_window \in DOMAIN managed_windows)
       => IF managed_windows[primary_window].demotion = "Hide"
          THEN /\ managed_windows'[primary_window].mode = ModeHidden
               /\ ~window_mapped'[primary_window]
          ELSE managed_windows'[primary_window].mode = ModeMin]_vars

\* C3: every managed window that is neither primary nor Hidden was last configured
\* with its min geometry at z = MIN_Z
C3_NonPrimaryAtMinGeometry ==
    \A id \in DOMAIN managed_windows :
        (/\ ~crashed /\ WindowExists(id)
         /\ id # primary_window /\ managed_windows[id].mode # ModeHidden)
        => window_geometry[id] =
               [geometry |-> managed_windows[id].min_geometry.geometry, z |-> MIN_Z]

\* C4: whenever a call succeeds and changed the primary to a window in mode
\* Max{w,h}, the screen resolution is (w,h) afterwards
C4_PrimaryChangeSetsResolution ==
    [][(/\ wm_call'.op # "none" /\ wm_call'.ok
        /\ primary_window' # primary_window
        /\ primary_window' \in DOMAIN managed_windows'
        /\ managed_windows'[primary_window'].mode.kind = "Max")
       => Screen' = ModeSize(managed_windows'[primary_window'].mode)]_vars

UniqueNames(entries) ==
    \A i, j \in DOMAIN entries : entries[i].name = entries[j].name => i = j

NamesUnique(instances) ==
    /\ UniqueNames(instances)
    /\ \A i \in DOMAIN instances :
          /\ UniqueNames(instances[i].modules)
          /\ \A j \in DOMAIN instances[i].modules :
                UniqueNames(instances[i].modules[j].actions)

\* the entries the call of the last step looked its name up in
Scope(instances, call) ==
    CASE call.op = "register_plugin_instance" -> instances
      [] call.op = "register_module" -> instances[call.plugin_instance].modules
      [] call.op = "register_action" ->
             instances[call.plugin_instance].modules[call.module].actions

RegisterOps == {"register_plugin_instance", "register_module", "register_action"}

\* C6: a register call with a name already registered in its scope leaves the
\* registry unchanged and returns nil; names are unique within their scope
C6_DuplicatesRejected ==
    [][/\ (reg_call'.op \in RegisterOps /\ HasName(Scope(plugin_instances, reg_call'),
                                                    reg_call'.name))
          => (plugin_instances' = plugin_instances /\ reg_call'.ret = "nil")
       /\ NamesUnique(plugin_instances')]_vars

\* a module name was registered a second time in its plugin instance
C6_Witness ==
    /\ reg_call.op = "register_module" /\ reg_call.ret = "nil"
    /\ HasName(plugin_instances[reg_call.plugin_instance].modules, reg_call.name)

\* C7: each module's active actions are names of actions registered in the module
C7_ActiveActionsRegistered ==
    \A i \in DOMAIN plugin_instances : \A j \in DOMAIN plugin_instances[i].modules :
        LET module == plugin_instances[i].modules[j]
        IN module.active_actions \subseteq {module.actions[k].name : k \in DOMAIN module.actions}

\* C8: after set_active_actions(xs) the snapshot reports exactly the elements of
\* xs, and setting xs once more changes nothing
C8_ActiveActionsSet ==
    reg_call.op = "set_active_actions" =>
        LET i == reg_call.plugin_instance
            j == reg_call.module
            info == system_info(plugin_instances).plugin_instances[i].modules[j]
        IN /\ info.active_actions = Elements(reg_call.actions)
           /\ set_active_actions(plugin_instances[i].modules[j], reg_call.actions)
                  = plugin_instances[i].modules[j]

\* a list with a repeated name was set
C8_Witness ==
    /\ reg_call.op = "set_active_actions"
    /\ Len(reg_call.actions) = 2 /\ reg_call.actions[1] = reg_call.actions[2]
    /\ Cardinality(plugin_instances[reg_call.plugin_instance]
                       .modules[reg_call.module].active_actions) = 1

(***************************************************************************)
(* Store: properties                                                       *)
(***************************************************************************)
\* C9: a set call calls every subscriber registered when it was called exactly
\* once with its value, whatever the callbacks subscribe or unsubscribe meanwhile
C9_SetCallsSubscribersOnce ==
    [][/\ \A value \in StoreValues :
             StoreSet(value) => set_stack'[Depth + 1].callbacks = subscriber_callbacks
       /\ \A n \in DOMAIN set_stack' : \A k \in SubscriptionKeys :
             /\ Len(set_stack'[n].calls[k]) <= 1
             /\ set_stack'[n].calls[k] # <<>> => k \in set_stack'[n].callbacks
       /\ completed_set'.returned =>
             completed_set'.calls =
                 [k \in SubscriptionKeys |->
                     IF k \in completed_set'.callbacks
                     THEN <<completed_set'.value>> ELSE <<>>]]_vars

\* a set call with two subscribers returned, and a callback has unsubscribed
\* one of them during it
C9_Witness ==
    /\ completed_set.returned
    /\ Cardinality(completed_set.callbacks) = 2
    /\ completed_set.callbacks \ subscriber_callbacks # {}

C25_WidsNeverReused ==
    [][/\ current_id' >= current_id
       /\ \A id \in DOMAIN managed_windows' : id < current_id'
       /\ IF wm_call'.op = "manage" /\ wm_call'.ok
          THEN /\ wm_call'.id = current_id
               /\ current_id' = current_id + 1
               /\ DOMAIN managed_windows' = DOMAIN managed_windows \cup {current_id}
          ELSE /\ wm_call'.op = "manage" => current_id' = current_id
               /\ DOMAIN managed_windows' \subseteq DOMAIN managed_windows]_vars

\* a window is managed with id 1 after the window with id 0 was unclaimed
C25_Witness ==
    /\ wm_call.op = "manage"
    /\ wm_call.ok
    /\ wm_call.id = 1
    /\ DOMAIN managed_windows = {1}

\* the sizes a resize is asked for: the sizes of the max modes, one that shrinks
\* and one that grows both dimensions
ResizeTargets == MaxSizes \cup {<<800, 600>>, <<1920, 1080>>}

\* size a fits component-wise inside size b
Fits(a, b) == a[1] <= b[1] /\ a[2] <= b[2]

\* the size is one the X server accepts as a screen size
InRange(size) ==
    /\ size[1] >= x_range.min_width /\ size[1] <= x_range.max_width
    /\ size[2] >= x_range.min_height /\ size[2] <= x_range.max_height

Larger(a, b) == IF a >= b THEN a ELSE b

\* C27: while change_screen_resolution moves the output from (cw,ch) to a target
\* (W,H) the server accepts, no request is rejected and after every request the
\* output size fits inside the screen size; when one dimension grows and the
\* other shrinks the screen is (max(cw,W), max(ch,H)) with the output still at
\* (cw,ch) before the output is shrunk, and screen and output end at (W,H)
C27_ResizeStepsFit ==
    \A target \in ResizeTargets :
        (InRange(target) /\ target # x_crtc) =>
            LET W == target[1]
                H == target[2]
                cw == x_crtc[1]
                ch == x_crtc[2]
                steps == ResizeSteps(WmState, W, H)
                mixed == (W < cw /\ H > ch) \/ (W > cw /\ H < ch)
            IN /\ \A i \in 1..5 : steps[i].ok /\ Fits(steps[i].x_crtc, steps[i].x_screen)
               /\ mixed => /\ steps[2].x_screen = <<Larger(cw, W), Larger(ch, H)>>
                           /\ steps[2].x_crtc = <<cw, ch>>
                           /\ steps[3].x_screen = steps[2].x_screen
                           /\ steps[3].x_crtc = target
               /\ steps[5].x_screen = target
               /\ steps[5].x_crtc = target

\* a max call moved the screen from 1024x768 to 1280x720: the width grew and the
\* height shrank
C27_Witness ==
    /\ wm_call.op = "max"
    /\ wm_call.ok
    /\ x_screen = <<1280, 720>>
    /\ x_crtc = <<1280, 720>>
    /\ Screen = <<1280, 720>>

\* C28: change_screen_resolution returns an error, without ending the process
\* and with the screen and output size as they were, exactly when the target
\* lies outside the screen size range of the X server
C28_OutOfRangeIsAnError ==
    \A target \in ResizeTargets :
        LET r == change_screen_resolution(WmState, target[1], target[2])
        IN IF InRange(target)
           THEN r.ok
           ELSE /\ ~r.ok
                /\ ~r.panicked
                /\ r.x_screen = x_screen
                /\ r.x_crtc = x_crtc

\* C29: after every call, also one that failed at one of its RandR requests,
\* the stored screen width and height are the screen size last set on the X
\* server
C29_StoredSizeIsServerSize == Screen = x_screen

\* the managed windows in mode Max other than id
OtherMax(windows, id) ==
    {w \in DOMAIN windows \ {id} : windows[w].mode.kind = "Max"}

\* C30: when min, hide or unclaim is called on the primary window and succeeds,
\* the primary afterwards is another managed window in mode Max if there is one
\* and none otherwise, and never the window the call was made on
C30_PrimaryReplaced ==
    [][(/\ wm_call'.op \in {"min", "hide", "unclaim"}
        /\ wm_call'.ok
        /\ wm_call'.id = primary_window)
       => /\ primary_window' # wm_call'.id
          /\ IF OtherMax(managed_windows', wm_call'.id) = {}
             THEN primary_window' = None
             ELSE primary_window' \in OtherMax(managed_windows', wm_call'.id)]_vars

\* C40: min, hide and unclaim of a window leave the mode of every other managed
\* window as it was; min and hide leave the set of managed ids as it was,
\* unclaim of a managed window takes exactly its id out of the set
C40_OtherWindowsKeepMode ==
    [][wm_call'.op \in {"min", "hide", "unclaim"}
       => /\ \A id \in DOMAIN managed_windows \ {wm_call'.id} :
                /\ id \in DOMAIN managed_windows'
                /\ managed_windows'[id].mode = managed_windows[id].mode
          /\ IF wm_call'.op = "unclaim"
             THEN DOMAIN managed_windows' = DOMAIN managed_windows \ {wm_call'.id}
             ELSE DOMAIN managed_windows' = DOMAIN managed_windows]_vars

\* the window with id 1 was unclaimed while the window with id 0 was managed in
\* mode Max, and that window is still managed in mode Max
C40_Witness ==
    /\ wm_call.op = "unclaim"
    /\ wm_call.ok
    /\ wm_call.id = 1
    /\ DOMAIN managed_windows = {0}
    /\ managed_windows[0].mode.kind = "Max"

IsManagedX(window) ==
    \E id \in DOMAIN managed_windows :
        /\ managed_windows[id].variant = "XWindow"
        /\ managed_windows[id].window = window

\* C33: an X window that exists carries the managed tag exactly when it is the
\* window of a managed id, also after it was unclaimed
C33_TaggedIffManaged ==
    \A window \in XWindows :
        (~crashed /\ x_alive[window]) => (x_tagged[window] <=> IsManagedX(window))

\* C39: no call evaluates into_geometry for an X window with a screen size
\* below width + x_offset or height + y_offset of a geometry aligned to the
\* right or the bottom: the 16 bit subtraction never goes below zero
C39_NoUnderflow == ~wm_call.underflow

\* C34: the supervisor of a child sends it a kill signal only if kill() was
\* called on its process handle; a child whose handle was dropped without a
\* call of kill() gets no signal and runs until it ends on its own.
\* (kill() takes the sender out of the handle: the handle holds it as long as
\* kill() was not called.)
C34_KilledOnlyByKill ==
    \A h \in DOMAIN processes :
        processes[h].kill_sender => processes[h].signals = 0

\* C31: no window callback runs while the write lock of the window manager
\* is held, and the plugin thread never stops on that lock
C31_NoWriteLockAcrossCallback ==
    /\ (\E n \in DOMAIN api_stack : api_stack[n].kind = "callback") => wm_lock = "free"
    /\ script_thread = Running

\* C37: `call <identifier>` with an identifier printed by `actions` calls
\* exactly the action the identifier was printed for, for all names that
\* registration accepts
C37_PrintedIdentifierCallsItsAction ==
    cli_reply.kind \in {"malformed", "not found", "called"}
        => cli_reply = Called(cli_printed)

\* C36: when an outermost set call has returned, the value of the last call of
\* every subscriber still registered is the value get() returns, also when
\* a callback has called set during the dispatch
C36_LastDeliveredIsStored ==
    (completed_set.returned /\ Depth = 0)
        => \A k \in subscriber_callbacks :
               last_delivered[k] # None => last_delivered[k] = store_value

\* C35: a shutdown signal that main has sent is not lost: as long as the event
\* loop has not left its loop, the signal is in the loop's receiver of the
\* shutdown channel, also when it was sent before the loop subscribed.
C35_ShutdownSignalKept ==
    (main_pc = "waiting" /\ loop_pc \in {"loaded", "drain", "event"})
        => shutdown_receiver = "signal"

(***************************************************************************)
(* Geometry strings: properties                                            *)
(***************************************************************************)
Parsed == geometry_result.kind \in {"ok", "err", "panic"}

\* the numbers the decimal fields stand for
DecimalValue(field) ==
    CASE field = <<"0">> -> 0
      [] field = <<"4", "8", "0">> -> 480
      [] field = <<"0", "7">> -> 7
      [] field = <<"6", "5", "5", "3", "5">> -> 65535
      [] field = <<"6", "5", "5", "3", "6">> -> 65536

\* the sign table: the corner the offsets are measured from
Corner(s1, s2) ==
    CASE s1 = <<"+">> /\ s2 = <<"+">> -> "lt"
      [] s1 = <<"-">> /\ s2 = <<"+">> -> "rt"
      [] s1 = <<"-">> /\ s2 = <<"-">> -> "rb"
      [] s1 = <<"+">> /\ s2 = <<"-">> -> "lb"

\* the string was put together as W x H s1 X s2 Y from decimal numbers
WellFormed(parts) ==
    /\ \A i \in {1, 3, 5, 7} : parts[i] \in Decimals
    /\ parts[2] = <<"x">>
    /\ \A i \in {4, 6} : parts[i] \in {<<"+">>, <<"-">>}

\* what from_str has to return for a well-formed string
Expected(parts) ==
    [kind |-> "ok",
     geometry |-> [width |-> DecimalValue(parts[1]), height |-> DecimalValue(parts[3]),
                   x_offset |-> DecimalValue(parts[5]),
                   y_offset |-> DecimalValue(parts[7]),
                   alignment |-> Corner(parts[4], parts[6])]]

\* C22 as stated: every string W x H s1 X s2 Y of non-negative decimal numbers
\* parses to width W, height H, offsets X and Y and the alignment of the sign
\* table
C22_WellFormedParses ==
    (Parsed /\ WellFormed(geometry_parts)) => geometry_result = Expected(geometry_parts)

\* C22 amended: every string W x H s1 X s2 Y of decimal numbers from 0 to 65535
\* parses to width W, height H, offsets X and Y and the alignment of the sign
\* table
C22_WellFormedU16Parses ==
    (/\ Parsed
     /\ WellFormed(geometry_parts)
     /\ \A i \in {1, 3, 5, 7} : DecimalValue(geometry_parts[i]) < U16)
    => geometry_result = Expected(geometry_parts)

\* "65535x07-480+0" was parsed: the largest u16 as width, a leading zero, the
\* top right corner
C22_Witness ==
    /\ geometry_text = <<"6", "5", "5", "3", "5", "x", "0", "7", "-", "4", "8", "0", "+", "0">>
    /\ geometry_result.kind = "ok"
    /\ geometry_result.geometry.alignment = "rt"
    /\ geometry_result.geometry.width = 65535

RECURSIVE GrammarState(_, _)
\* the automaton of digits 'x' digits [+-] digits [+-] digits: the state after
\* the text, 0 for a text that cannot be completed; 8 accepts
GrammarState(text, state) ==
    IF text = <<>> THEN state
    ELSE LET c == Head(text)
             next == CASE state \in {1, 2} /\ c \in Digits -> 2
                       [] state = 2 /\ c = "x" -> 3
                       [] state \in {3, 4} /\ c \in Digits -> 4
                       [] state = 4 /\ c \in {"+", "-"} -> 5
                       [] state \in {5, 6} /\ c \in Digits -> 6
                       [] state = 6 /\ c \in {"+", "-"} -> 7
                       [] state \in {7, 8} /\ c \in Digits -> 8
                       [] OTHER -> 0
         IN GrammarState(Tail(text), next)

MatchesGrammar(text) == GrammarState(text, 1) = 8

\* C23: from_str returns an error for every string that does not match digits
\* 'x' digits [+-] digits [+-] digits from its first to its last character
C23_MalformedRejected ==
    (Parsed /\ ~MatchesGrammar(geometry_text)) => geometry_result.kind = "err"

(***************************************************************************)
(* Event loop and deferred tasks: properties                               *)
(***************************************************************************)
\* the deferred tasks are numbered in enqueue order
InEnqueueOrder(tasks) == tasks = [n \in 1..Len(tasks) |-> n - 1]

\* C10: every deferred task is called exactly once, in enqueue order, only
\* when no event is being handled, and all tasks enqueued so far (also those
\* enqueued by deferred tasks) are called before the next event is received
C10_DeferredTasksRunOnce ==
    /\ [](InEnqueueOrder(executed))
    /\ [][executed' # executed => loop_pc = "drain"]_vars
    /\ [][loop_pc # "event" /\ loop_pc' = "event" => Len(executed) = next_task]_vars
    /\ [](loop_pc = "done" => Len(executed) = next_task)

\* C21: when a deferred task or the callback of an event raises an error, the
\* error is logged and the loop is where it is after a callback that returned:
\* about to call the next deferred task or to receive the next event, with the
\* queue of deferred tasks as it was; the loop is left only from there, by the
\* shutdown signal
C21_ScriptErrorKeepsLoopRunning ==
    [][/\ loop_errors' # loop_errors
          => /\ loop_pc \in {"task", "event"}
             /\ loop_errors' = loop_errors + 1
             /\ loop_pc' = "drain"
             /\ run_later_tasks' = run_later_tasks
             /\ executed' = executed
       /\ (loop_pc' \in {"cleanup", "done"} /\ loop_pc' # loop_pc)
          => \/ loop_pc = "drain" /\ loop_pc' = "cleanup"
             \/ loop_pc = "cleanup" /\ loop_pc' = "done"]_vars

\* an event is being handled after a deferred task was called and two script
\* errors were logged
C21_Witness ==
    /\ loop_errors = MaxErrors
    /\ loop_pc = "event"
    /\ event_loop_counter > 0
    /\ executed # <<>>

(***************************************************************************)
(* Notification bus, websocket sessions and action calls: properties       *)
(***************************************************************************)
\* what a notification tells the subscribers
Payload(notification) ==
    [type |-> notification.type, module_identifier |-> notification.module_identifier,
     value |-> notification.value]

\* the notification a setter call has to send: the identifier of the module
\* and the new value
NotificationOf(call) ==
    [type |-> CASE call.op = "set_status" -> "ModuleStatusUpdate"
                [] call.op = "set_message" -> "ModuleMessageUpdate"
                [] call.op = "set_active_actions" -> "ModuleActiveActionsUpdate",
     module_identifier |-> module_identifier(call.module),
     value |-> IF call.op = "set_active_actions" THEN Elements(call.value)
               ELSE call.value]

IsSetter(call) == call.op \in {"set_status", "set_message", "set_active_actions"}

\* the notifications a session has sent to its client, in the order sent
NotificationFrames(s) ==
    LET frames == SelectSeq(sessions[s].frames, LAMBDA f : f.type = "notification")
    IN [i \in 1..Len(frames) |-> frames[i].body]

\* C11: every set_status, set_message and set_active_actions call sends exactly
\* one notification with the identifier of the module and the new value, no
\* other step sends one, and a session that has not lagged has sent its client
\* the notifications since its subscription in the order of the calls
C11_OneNotificationPerCallInOrder ==
    /\ [][IF IsSetter(set_call')
          THEN /\ Len(bus_log') = Len(bus_log) + 1
               /\ SubSeq(bus_log', 1, Len(bus_log)) = bus_log
               /\ Payload(bus_log'[Len(bus_log')]) = NotificationOf(set_call')
          ELSE bus_log' = bus_log]_vars
    /\ [](\A s \in Sessions :
             sessions[s].pc \in {"loop", "reply"} /\ ~sessions[s].lagged =>
                 NotificationFrames(s) = SubSeq(bus_log, sessions[s].subscribed_at + 1,
                                                sessions[s].cursor))

\* a session that has not lagged has passed on two notifications of different
\* setters
C11_Witness ==
    \E s \in Sessions :
        /\ sessions[s].pc = "loop"
        /\ ~sessions[s].lagged
        /\ Len(NotificationFrames(s)) = 2
        /\ NotificationFrames(s)[1].type # NotificationFrames(s)[2].type

\* the message is the text "Password " followed by a password whose hash is
\* the hash of the configured password
PasswordMatches(msg) ==
    /\ msg.type = "text"
    /\ Len(msg.text) >= Len(PasswordPrefix)
    /\ SubSeq(msg.text, 1, Len(PasswordPrefix)) = PasswordPrefix
    /\ Sha256(SubSeq(msg.text, Len(PasswordPrefix) + 1, Len(msg.text))) =
           Sha256(websocket_password)

\* the events on the channel, handled right now or answered for the session
EventsOf(s) ==
    {i \in DOMAIN event_queue : event_queue[i].session = s}

\* C17: unless the first message of a session arrived within AUTH_TIMEOUT
\* seconds and is "Password <pw>" with the hash of the configured password,
\* the session sends its client nothing but one close frame, with code 1 after
\* a wrong first message and code 2 after the timeout, no event is enqueued
\* for it and it takes nothing from the bus
C17_NothingBeforeAuthentication ==
    \A s \in Sessions :
        \/ PasswordMatches(sessions[s].first)
        \/ /\ sessions[s].pc \in {"none", "auth", "closed"}
           /\ EventsOf(s) = {}
           /\ ps.event.session # s
           /\ sessions[s].rx = Nil
           /\ sessions[s].cursor = 0
           /\ IF sessions[s].pc # "closed" THEN sessions[s].frames = <<>>
              ELSE IF sessions[s].first.type = "none"
                   THEN sessions[s].frames \in {<<>>, <<CLOSE_MSG_AUTH_TIMEOUT>>}
                   ELSE sessions[s].frames \in {<<>>, <<CLOSE_MSG_AUTH>>}
           /\ CLOSE_MSG_AUTH.body.code = 1
           /\ CLOSE_MSG_AUTH_TIMEOUT.body.code = 2

\* a session got a wrong password while notifications were on the bus and was
\* closed with the close frame of code 1
C17_Witness ==
    \E s \in Sessions :
        /\ sessions[s].first = Text(PasswordPrefix \o <<"p", "x">>)
        /\ sessions[s].frames = <<CLOSE_MSG_AUTH>>
        /\ bus_log # <<>>

\* the registry key under which the action of the identifier was registered,
\* None if there is no such action
RegisteredKey(identifier) ==
    LET matches ==
            {<<i, j, k>> \in (1..2) \X (1..1) \X (1..2) :
                /\ i \in DOMAIN plugin_instances
                /\ j \in DOMAIN plugin_instances[i].modules
                /\ k \in DOMAIN plugin_instances[i].modules[j].actions
                /\ plugin_instances[i].name = identifier.plugin_instance
                /\ plugin_instances[i].modules[j].name = identifier.module
                /\ plugin_instances[i].modules[j].actions[k].name = identifier.action}
    IN IF matches = {} THEN None
       ELSE LET m == CHOOSE m \in matches : TRUE
            IN plugin_instances[m[1]].modules[m[2]].actions[m[3]].key

\* the request ids of the responses a session has sent, in the order sent
ResponseIds(s) ==
    LET frames == SelectSeq(sessions[s].frames, LAMBDA f : f.type = "response")
    IN [i \in 1..Len(frames) |-> frames[i].body.request_id]

\* the plugin thread answers the request the session waits on
Answered(s) == sessions[s].pc = "reply" /\ sessions[s].rx = Nil /\ sessions'[s].rx # Nil

\* the session sends a response
Responds(s) ==
    /\ Len(sessions'[s].frames) = Len(sessions[s].frames) + 1
    /\ sessions'[s].frames[Len(sessions'[s].frames)].type = "response"

C19_ResponseBeforeNotifications ==
    \A s \in Sessions :
        \A i \in DOMAIN sessions[s].frames :
            LET frame == sessions[s].frames[i]
            IN (frame.type = "notification" /\
                frame.body.cause \in Elements(sessions[s].requests)) =>
                   \E j \in 1..(i - 1) :
                       /\ sessions[s].frames[j].type = "response"
                       /\ sessions[s].frames[j].body.request_id = frame.body.cause

\* a session has sent the response and then a notification of the callback
C19_Witness ==
    \E s \in Sessions :
        \E i \in DOMAIN sessions[s].frames :
            /\ sessions[s].frames[i].type = "notification"
            /\ sessions[s].frames[i].body.cause \in Elements(sessions[s].requests)
            /\ \E j \in 1..(i - 1) : sessions[s].frames[j].type = "response"

(***************************************************************************)
(* Child processes and the shutdown: properties                            *)
(***************************************************************************)
\* the lines of one stream of a child that were passed to its callback, in the
\* order of the calls
DeliveredLines(h, kind) ==
    LET of_stream(event) == event.handle = h /\ event.kind = kind
        events == SelectSeq(delivered, of_stream)
    IN  [i \in 1..Len(events) |-> events[i].line]

\* an event with a line of the stream waits in the event channel
Queued(h, kind) ==
    \E i \in 1..Len(output_queue) : output_queue[i].handle = h /\ output_queue[i].kind = kind

ApplyNotification(view, notification) ==
    LET h == CHOOSE m \in LoadedModules :
                 module_identifier(m) = notification.module_identifier
    IN  CASE notification.type = "ModuleStatusUpdate" ->
                 [view EXCEPT !.status[h] = notification.value]
          [] notification.type = "ModuleMessageUpdate" ->
                 [view EXCEPT !.message[h] = notification.value]
          [] notification.type = "ModuleActiveActionsUpdate" ->
                 [view EXCEPT !.active_actions[h] = notification.value]

RECURSIVE ApplyNotifications(_, _)
ApplyNotifications(view, notifications) ==
    IF notifications = <<>> THEN view
    ELSE ApplyNotifications(ApplyNotification(view, Head(notifications)),
                            Tail(notifications))

\* the module state in a system info
SnapshotView(info) ==
    [status |-> info.status, message |-> info.message,
     active_actions |->
         [h \in LoadedModules |->
             info.info.plugin_instances[h[1]].modules[h[2]].active_actions]]

\* the module state of the server
ServerView ==
    [status |-> module_status, message |-> module_message,
     active_actions |->
         [h \in LoadedModules |-> plugin_instances[h[1]].modules[h[2]].active_actions]]

\* the module state of the client of a session: its system info with the
\* notifications it got applied in order
ClientView(s) ==
    ApplyNotifications(SnapshotView(sessions[s].frames[1].body), NotificationFrames(s))

\* the session has sent its system info, has not lagged and has passed on
\* every notification sent so far
UpToDate(s) ==
    /\ sessions[s].pc \in {"loop", "reply"}
    /\ ~sessions[s].lagged
    /\ sessions[s].cursor = Len(bus_log)

\* C38: for a session that never got Lagged and has been sent every
\* notification emitted, the system info it got with the notifications applied
\* in order is the current status, message and active actions of the modules
C38_SnapshotPlusNotificationsIsCurrent ==
    \A s \in Sessions : UpToDate(s) => ClientView(s) = ServerView

\* a session is up to date whose system info already holds the status of a
\* call made after its subscription, and which got the notification of that
\* call after the system info
C38_Witness ==
    \E s \in Sessions :
        /\ UpToDate(s)
        /\ sessions[s].subscribed_at = 0
        /\ sessions[s].frames[1].body.status[<<1, 1>>] = Some("active")
        /\ Len(NotificationFrames(s)) = 1
        /\ NotificationFrames(s)[1].type = "ModuleStatusUpdate"

PidFileOf(h) == pid_files[processes[h].pid] = h

\* the supervisor of the handle has reaped its child and not yet removed the
\* PID file
Removing(h) == processes[h].supervisor = "reaped"

\* C13: the PID file <pid>.pid exists if and only if a spawned child with that
\* pid is live and not yet reaped by its supervisor. The file may remain while
\* the supervisor of the reaped child is about to remove it.
C13_PidFileIffUnreaped ==
    \A pid \in Pids :
        /\ PidInUse(pid) => pid_files[pid] # 0
        /\ pid_files[pid] # 0 =>
               \/ PidInUse(pid)
               \/ \E h \in DOMAIN processes : processes[h].pid = pid /\ Removing(h)

\* C14: after kill() on a process handle the child is eventually reaped, its
\* supervisor ends and the PID file created for the child is gone, unless a
\* second console interrupt ends the program first
C14_KillEventuallyReaps ==
    \A h \in ProcessHandles :
        (proc_call.op = "kill" /\ proc_call.handle = h)
            ~> \/ main_pc = "forced"
               \/ /\ h \in DOMAIN processes
                  /\ processes[h].child = "reaped"
                  /\ processes[h].supervisor = "done"
                  /\ ~PidFileOf(h)

\* a running child was killed on request: the signal is sent, the child
\* reaped and its PID file removed
C14_Witness ==
    \E h \in DOMAIN processes :
        /\ processes[h].signals = 1
        /\ processes[h].child = "reaped"
        /\ processes[h].supervisor = "done"
        /\ pid_files[processes[h].pid] = 0

\* C15: the first kill() on a process handle sends the kill request; every
\* later call on the handle sends none and changes no state; a child gets at
\* most one kill signal
C15_KillAtMostOnce ==
    [][\A h \in DOMAIN processes :
           /\ processes'[h].signals <= 1
           /\ (proc_call'.op = "kill" /\ proc_call'.handle = h) =>
                  IF processes[h].kill_sender
                  THEN proc_call'.sent /\ ~processes'[h].kill_sender
                  ELSE /\ ~proc_call'.sent
                       /\ processes' = processes
                       /\ pid_files' = pid_files
                       /\ <<cleanup, main_pc, out_vars, loop_vars>>' =
                              <<cleanup, main_pc, out_vars, loop_vars>>]_vars

\* kill() is called again after the first call has killed the child
C15_Witness ==
    /\ proc_call.op = "kill"
    /\ ~proc_call.sent
    /\ proc_call.handle \in DOMAIN processes
    /\ processes[proc_call.handle].signals = 1

\* the plugin thread has left the event loop
Stopped == loop_pc \in {"cleanup", "wait", "done"}

\* C20: on shutdown the loop dispatches no event any more; then the
\* on_cleanup callback of every plugin instance that has one is called exactly
\* once, whether or not an earlier one raised an error; the token of the
\* shutdown-wait channel is released only when the callbacks are through and
\* every supervisor has ended, each child reaped and its PID file removed;
\* main exits after the release or on a second console interrupt
C20_ShutdownOrder ==
    [][/\ Stopped => /\ Stopped'
                     /\ loop_pc = "wait" => loop_pc' # "cleanup"
                     /\ loop_pc = "done" => loop_pc' = "done"
                     /\ <<delivered, event_loop_counter>>' = <<delivered, event_loop_counter>>
       /\ cleanup' # cleanup => loop_pc = "cleanup" /\ loop_pc' = "cleanup"
       /\ \A i \in DOMAIN OnCleanup :
              /\ cleanup'.calls[i] <= 1
              /\ ~OnCleanup[i] => cleanup'.calls[i] = 0
              /\ loop_pc' \in {"wait", "done"} /\ OnCleanup[i] => cleanup'.calls[i] = 1
       /\ loop_pc' = "done" =>
              /\ loop_pc \in {"wait", "done"}
              /\ \A h \in DOMAIN processes' :
                     /\ processes'[h].supervisor = "done"
                     /\ processes'[h].child = "reaped"
              /\ \A pid \in Pids : pid_files'[pid] = 0
       /\ main_pc' = "exited" => loop_pc' = "done"]_vars

\* the first cleanup callback raised an error, the last one killed a child,
\* and the token is released after the supervisor of the child has ended
C20_Witness ==
    /\ loop_pc = "done"
    /\ cleanup.failed = {1}
    /\ cleanup.calls[3] = 1
    /\ \E h \in DOMAIN processes : processes[h].signals = 1
    /\ main_pc = "waiting"

\* C16: after the sweep at startup no *.pid file that a previous instance has
\* left is in the PID directory, whether its name is a pid or not
C16_SweepRemovesEveryPidFile ==
    sweep.pc = "done" => \A name \in pid_dir : ~ends_with(name, PidSuffix)

Init == WmInit(RangeVnc) /\ RegInit /\ StoreInit /\ LoopInit /\ SrvInit /\ ProcInit /\ SweepInit
    /\ GeoInit /\ CliInit /\ LockInit

InitSkew == WmInit(RangeSkew) /\ RegInit /\ StoreInit /\ LoopInit /\ SrvInit /\ ProcInit /\ SweepInit
    /\ GeoInit /\ CliInit /\ LockInit

\* the plugins are loaded and the server accepts websocket clients
RegLoaded ==
    /\ plugin_instances = LoadedPluginInstances
    /\ next_key = 3
    /\ reg_call = NoRegCall

InitServer == WmInit(RangeVnc) /\ RegLoaded /\ StoreInit /\ LoopInit /\ SrvInit /\ ProcInit /\ SweepInit
    /\ GeoInit /\ CliInit /\ LockInit

\* the window manager on an X server with the screen size range of the VNC server
SpecWM == Init /\ [][WmNext]_vars

\* the window manager on an X server whose minimal screen height exceeds its
\* minimal screen width
SpecWMSkew == InitSkew /\ [][WmNext]_vars

\* the window manager with windows created without options
SpecWMDefault == Init /\ [][WmDefaultNext]_vars

\* the window manager with a max size below the default min geometry
SpecWMSmall == Init /\ [][WmSmallNext]_vars

\* scripts registering plugin instances, modules and actions
SpecRegistry == Init /\ [][RegNext]_vars

\* scripts using one store
SpecStore == Init /\ [][StoreNext]_vars

\* the plugin thread: loading the plugins, the event loop, the cleanup
SpecLoop == Init /\ [][LoopNext]_vars

\* websocket clients, the terminal client and the plugin thread handling their
\* events
SpecServer == InitServer /\ [][SrvNext]_vars


SpecProc == Init /\ [][ProcNext]_vars

\* the supervisor tasks run on the main runtime and are scheduled
ProcFairness ==
    \A h \in ProcessHandles :
        /\ WF_vars(SupervisorKills(h))
        /\ WF_vars(SupervisorReaps(h))
        /\ WF_vars(SupervisorRemoves(h))

SpecProcFair == Init /\ [][KillNext]_vars /\ ProcFairness

SpecShutdown == Init /\ [][ShutdownNext]_vars

SpecProcDrop == Init /\ [][DropNext]_vars

InitSweep ==
    WmInit(RangeVnc) /\ RegInit /\ StoreInit /\ LoopInit /\ SrvInit /\ ProcInit /\ SweepBoot
    /\ GeoInit /\ CliInit /\ LockInit

SpecSweep == InitSweep /\ [][SweepNext]_vars

SpecOutput == Init /\ [][OutNext]_vars

InitGeometry ==
    WmInit(RangeVnc) /\ RegInit /\ StoreInit /\ LoopInit /\ SrvInit /\ ProcInit /\ SweepInit
    /\ GeoInput /\ CliInit /\ LockInit

\* from_str on the strings of GeometryParts
SpecGeometry == InitGeometry /\ [][GeoNext]_vars

InitCli ==
    WmInit(RangeVnc) /\ RegInit /\ StoreInit /\ LoopInit /\ SrvInit /\ ProcInit /\ SweepInit
    /\ GeoInit /\ CliLoaded /\ LockInit

\* the commands `actions` and `call` on the registries of CliRegistries
SpecCli == InitCli /\ [][CliNext]_vars

\* the window API called from top-level script code and from window callbacks
SpecLock == Init /\ [][LockNext]_vars

====
